---------------------------- MODULE Spec2Model ----------------------------
(***************************************************************************)
(* saltgrep: pattern compiler (tokenize -> railroad -> lowering to an NFA) *)
(* and NFA simulator (find / find_at / captures / try_find_iter_at).       *)
(*                                                                         *)
(* Strings are sequences of Unicode scalars.  A scalar is written as a     *)
(* one-character TLA+ string ("a", "(", ...); the non-ASCII scalars used   *)
(* here are named by their code point ("U+E9").  Offsets are byte offsets  *)
(* into the UTF-8 encoding, as in the Rust source.                         *)
(***************************************************************************)
EXTENDS Integers, Sequences, FiniteSets, TLC

(***************************************************************************)
(* Scalars and UTF-8 byte arithmetic (Rust str / char)                     *)
(***************************************************************************)

\* char as u32
Code(c) ==
    CASE c = "NUL" -> 0
      [] c = "LF" -> 10
      [] c = " " -> 32
      [] c = "%" -> 37
      [] c = "(" -> 40
      [] c = ")" -> 41
      [] c = "*" -> 42
      [] c = "+" -> 43
      [] c = "," -> 44
      [] c = "-" -> 45
      [] c = "." -> 46
      [] c = "1" -> 49
      [] c = "2" -> 50
      [] c = "3" -> 51
      [] c = "?" -> 63
      [] c = "A" -> 65
      [] c = "[" -> 91
      [] c = "\\" -> 92
      [] c = "]" -> 93
      [] c = "^" -> 94
      [] c = "_" -> 95
      [] c = "a" -> 97
      [] c = "b" -> 98
      [] c = "c" -> 99
      [] c = "d" -> 100
      [] c = "e" -> 101
      [] c = "f" -> 102
      [] c = "g" -> 103
      [] c = "h" -> 104
      [] c = "s" -> 115
      [] c = "w" -> 119
      [] c = "x" -> 120
      [] c = "z" -> 122
      [] c = "S" -> 83
      [] c = "W" -> 87
      [] c = "D" -> 68
      [] c = "|" -> 124
      [] c = "U+E9" -> 233
      [] c = "U+20AC" -> 8364
      [] c = "U+1F600" -> 128512

\* char::len_utf8
Utf8Len(c) ==
    IF Code(c) < 128 THEN 1
    ELSE IF Code(c) < 2048 THEN 2
    ELSE IF Code(c) < 65536 THEN 3
    ELSE 4

RECURSIVE ByteLen(_)
\* str::len: the length in bytes
ByteLen(s) == IF s = <<>> THEN 0 ELSE Utf8Len(Head(s)) + ByteLen(Tail(s))

\* the byte offset at which the scalar of (1-based) index k starts
ByteOffsetOf(s, k) == ByteLen(SubSeq(s, 1, k - 1))

\* str::is_char_boundary
IsCharBoundary(s, b) == \E k \in 1..(Len(s) + 1) : ByteOffsetOf(s, k) = b

\* the scalar index that starts at byte offset b (b a char boundary)
IndexAtByte(s, b) == CHOOSE k \in 1..(Len(s) + 1) : ByteOffsetOf(s, k) = b

\* &s[b..] for b a char boundary
StrFrom(s, b) == SubSeq(s, IndexAtByte(s, b), Len(s))

\* &s[b..e] for b <= e char boundaries
StrRange(s, b, e) == SubSeq(s, IndexAtByte(s, b), IndexAtByte(s, e) - 1)

\* str::char_indices: the byte offset of every scalar
CharIndices(s) == [k \in 1..Len(s) |-> ByteOffsetOf(s, k)]

(***************************************************************************)
(* Tokenizer (src/src/tokenize.rs)                                         *)
(***************************************************************************)

\* Token { kind, position: (start, end), flags }.  kind is a TokenType; sub
\* is its QuantifierType or LiteralType, class/positive the payload of
\* LiteralType::CharacterClass ("None"/TRUE where the variant carries none).
create_long(kind, sub, class, positive, start_position, end_position) ==
    [kind |-> kind, sub |-> sub, class |-> class, positive |-> positive,
     start |-> start_position, end |-> end_position, flags |-> 0]

\* Token::create: a token one byte wide
create(kind, sub, position) ==
    create_long(kind, sub, "None", TRUE, position, position + 1)

\* Token::cons: a zero-width token
cons_token(position) ==
    create_long("Cons", "None", "None", TRUE, position, position)

\* Token::empty_string
empty_string(position) ==
    create_long("Literal", "EmptyString", "None", TRUE, position, position)

\* a should_join_literals that forgets the quantifiers
should_join_literals_without_quantifier(token) ==
    token.kind \in {"CloseGroup", "Literal"}

should_join_literals(token) ==
    token.kind \in {"CloseGroup", "Quantifier", "Literal"}

\* insert_cons: push a Cons when the last token can end an atom
insert_cons(tokens) ==
    IF tokens # <<>> /\ should_join_literals(tokens[Len(tokens)])
    THEN Append(tokens, cons_token(tokens[Len(tokens)].end))
    ELSE tokens

TokOk(token, next, tokens) ==
    [ok |-> TRUE, token |-> token, next |-> next, tokens |-> tokens,
     err |-> "None", pos |-> 0]

TokErr(err, position, tokens) ==
    [ok |-> FALSE, token |-> cons_token(0), next |-> 0, tokens |-> tokens,
     err |-> err, pos |-> position]

RECURSIVE class_scan(_, _, _, _, _, _, _, _)
\* the for loop of munch_character_class; j indexes the next scalar
class_scan(pat, j, position, previous_char, inverted, next_position, num_chars_in_class, tokens) ==
    IF j > Len(pat)
    THEN TokErr("UnterminatedCharacterSet", position, tokens)
    ELSE LET remaining_char == pat[j] IN
         IF remaining_char = "]" /\ previous_char # "\\"
         THEN IF num_chars_in_class = 0
              THEN TokErr("EmptyCharacterSet", position, tokens)
              ELSE TokOk(create_long("Literal", "CharacterClass", "Manual",
                                     ~inverted, position,
                                     next_position + Utf8Len(remaining_char)),
                         j + 1, tokens)
         ELSE class_scan(pat, j + 1, position, remaining_char, inverted,
                         next_position + Utf8Len(remaining_char),
                         num_chars_in_class + 1, tokens)

munch_character_class(pat, j, position, tokens) ==
    IF j <= Len(pat) /\ pat[j] = "^"
    THEN class_scan(pat, j + 1, position, "NUL", TRUE,
                    position + Utf8Len("[") + Utf8Len("^"), 0, tokens)
    ELSE class_scan(pat, j, position, "NUL", FALSE,
                    position + Utf8Len("["), 0, tokens)

\* a munch_escape that counts one byte for the escaped scalar
munch_escape_one_byte_wide(pat, j, position, tokens) ==
    IF j > Len(pat)
    THEN TokErr("UnterminatedEscape", position, tokens)
    ELSE LET next_character == pat[j]
             end_position == position + Utf8Len("\\") + 1
         IN  IF next_character \in {"s", "S"}
             THEN TokOk(create_long("Literal", "CharacterClass", "Whitespace",
                                    next_character = "s", position, end_position),
                        j + 1, tokens)
             ELSE IF next_character \in {"w", "W"}
             THEN TokOk(create_long("Literal", "CharacterClass", "Word",
                                    next_character = "w", position, end_position),
                        j + 1, tokens)
             ELSE IF next_character \in {"d", "D"}
             THEN TokOk(create_long("Literal", "CharacterClass", "Digit",
                                    next_character = "d", position, end_position),
                        j + 1, tokens)
             ELSE TokOk(create_long("Literal", "EscapedCharacter", "None", TRUE,
                                    position, end_position),
                        j + 1, tokens)

\* munch_character_class_escape, then munch_escape_character when the
\* escaped scalar names no class
munch_escape(pat, j, position, tokens) ==
    IF j > Len(pat)
    THEN TokErr("UnterminatedEscape", position, tokens)
    ELSE LET next_character == pat[j]
             end_position == position + Utf8Len("\\") + Utf8Len(next_character)
         IN  IF next_character \in {"s", "S"}
             THEN TokOk(create_long("Literal", "CharacterClass", "Whitespace",
                                    next_character = "s", position, end_position),
                        j + 1, tokens)
             ELSE IF next_character \in {"w", "W"}
             THEN TokOk(create_long("Literal", "CharacterClass", "Word",
                                    next_character = "w", position, end_position),
                        j + 1, tokens)
             ELSE IF next_character \in {"d", "D"}
             THEN TokOk(create_long("Literal", "CharacterClass", "Digit",
                                    next_character = "d", position, end_position),
                        j + 1, tokens)
             ELSE TokOk(create_long("Literal", "EscapedCharacter", "None", TRUE,
                                    position, end_position),
                        j + 1, tokens)

\* munch_token: character is pat[j - 1], j indexes the scalar after it
munch_token(pat, j, character, position, tokens) ==
    CASE character = "(" ->
            TokOk(create("OpenGroup", "None", position), j, insert_cons(tokens))
      [] character = ")" ->
            TokOk(create("CloseGroup", "None", position), j, tokens)
      [] character = "[" ->
            munch_character_class(pat, j, position, insert_cons(tokens))
      [] character = "|" ->
            TokOk(create("Alternation", "None", position), j, tokens)
      [] character = "*" ->
            TokOk(create("Quantifier", "ZeroOrMore", position), j, tokens)
      [] character = "+" ->
            TokOk(create("Quantifier", "OneOrMore", position), j, tokens)
      [] character = "?" ->
            TokOk(create("Quantifier", "ZeroOrOne", position), j, tokens)
      [] character = "\\" ->
            munch_escape(pat, j, position, insert_cons(tokens))
      [] character = "." ->
            TokOk(create("Literal", "Wildcard", position), j, insert_cons(tokens))
      [] OTHER ->
            TokOk(create("Literal", "Character", position), j, insert_cons(tokens))

RECURSIVE tokenize_from(_, _, _, _)
\* the while loop of tokenize
tokenize_from(pat, i, position, tokens) ==
    IF i > Len(pat)
    THEN [ok |-> TRUE, tokens |-> tokens, err |-> "None", pos |-> 0]
    ELSE LET r == munch_token(pat, i + 1, pat[i], position, tokens) IN
         IF ~r.ok
         THEN [ok |-> FALSE, tokens |-> <<>>, err |-> r.err, pos |-> r.pos]
         ELSE tokenize_from(pat, r.next, r.token.end, Append(r.tokens, r.token))

tokenize(in_str) == tokenize_from(in_str, 1, 0, <<>>)

(***************************************************************************)
(* Parser (src/src/railroad.rs): shunting yard into a post-order AST       *)
(***************************************************************************)

\* Token::get_precedence (negated, so that a smaller number binds tighter)
\* a get_precedence that ranks Cons below Alternation
get_precedence_cons_below_alternation(token) ==
    CASE token.kind = "CloseGroup" -> 0 - 4
      [] token.kind = "Quantifier" -> 0 - 5
      [] token.kind = "Cons" -> 0 - 8
      [] token.kind = "Alternation" -> 0 - 6
      [] token.kind = "OpenGroup" -> 0 - 10
      [] token.kind = "Literal" -> 0

get_precedence(token) ==
    CASE token.kind = "CloseGroup" -> 0 - 4
      [] token.kind = "Quantifier" -> 0 - 5
      [] token.kind = "Cons" -> 0 - 6
      [] token.kind = "Alternation" -> 0 - 8
      [] token.kind = "OpenGroup" -> 0 - 10
      [] token.kind = "Literal" -> 0

precedes(self, other) == get_precedence(self) > get_precedence(other)

same_precedence_as(self, other) == get_precedence(self) = get_precedence(other)

\* Operator::arity for Token
arity(token) ==
    CASE token.kind \in {"Quantifier", "CloseGroup"} -> "Unary"
      [] token.kind \in {"Cons", "Alternation"} -> "Binary"
      [] OTHER -> "NoOp"

\* an AstNode; left/right are AstRef indices (0-based) into the Ast, -1
\* where the variant has no such child
AstNode(kind, token, left, right) ==
    [kind |-> kind, sub |-> token.sub, token |-> token, left |-> left, right |-> right]

\* the parser's working state: the Ast, out_stack, op_stack, and the
\* failure that stopped it ("None" while it runs).  Every failure of
\* from_tokens is an expect(..) or panic!(..): the call aborts with the
\* message `why`; the only position a message carries is the group_pos of
\* add_group, which from_tokens passes as 0, so the token is not reported.
ParseFail(st, why, token) ==
    [st EXCEPT !.fail = why, !.fail_pos = 0, !.aborted = TRUE]

\* Ast::add followed by out_stack.push(new_ref), after popping `pops`
\* operands from out_stack
add_and_push(st, node, pops) ==
    [st EXCEPT !.ast = Append(@, node),
               !.out_stack = Append(SubSeq(@, 1, Len(@) - pops), Len(st.ast))]

\* an apply_operator whose get_binary_operands hands back (right, left)
apply_operator_swapping_operands(st, op_token) ==
    IF st.fail # "None" THEN st
    ELSE LET n == Len(st.out_stack) IN
         CASE arity(op_token) = "Binary" ->
                IF n < 1 THEN ParseFail(st, "No RHS for operator", op_token)
                ELSE IF n < 2 THEN ParseFail(st, "No LHS for operator", op_token)
                ELSE add_and_push(st, AstNode(op_token.kind, op_token,
                                              st.out_stack[n], st.out_stack[n - 1]), 2)
           [] arity(op_token) = "Unary" ->
                IF n < 1 THEN ParseFail(st, "No argument for operator", op_token)
                ELSE add_and_push(st, AstNode(IF op_token.kind = "CloseGroup"
                                              THEN "Group" ELSE "Quantifier",
                                              op_token, st.out_stack[n], 0 - 1), 1)
           [] OTHER -> ParseFail(st, "Unclosed OpenGroup", op_token)

\* get_operator_node (with get_binary_operands / get_unary_operands), then
\* ast.add and out_stack.push
apply_operator(st, op_token) ==
    IF st.fail # "None" THEN st
    ELSE LET n == Len(st.out_stack) IN
         CASE arity(op_token) = "Binary" ->
                IF n < 1 THEN ParseFail(st, "No RHS for operator", op_token)
                ELSE IF n < 2 THEN ParseFail(st, "No LHS for operator", op_token)
                ELSE add_and_push(st, AstNode(op_token.kind, op_token,
                                              st.out_stack[n - 1], st.out_stack[n]), 2)
           [] arity(op_token) = "Unary" ->
                IF n < 1 THEN ParseFail(st, "No argument for operator", op_token)
                ELSE add_and_push(st, AstNode(IF op_token.kind = "CloseGroup"
                                              THEN "Group" ELSE "Quantifier",
                                              op_token, st.out_stack[n], 0 - 1), 1)
           [] OTHER -> ParseFail(st, "Unclosed OpenGroup", op_token)

RECURSIVE add_group(_, _)
\* add_group: pop operators down to the matching OpenGroup, then wrap the
\* top of out_stack in a Group node
add_group(st, close_token) ==
    IF st.fail # "None" THEN st
    ELSE IF st.op_stack = <<>>
    THEN ParseFail(st, "Unmatched group closure", close_token)
    ELSE LET op_token == st.op_stack[Len(st.op_stack)]
             popped == [st EXCEPT !.op_stack = SubSeq(@, 1, Len(@) - 1)]
         IN  IF op_token.kind = "OpenGroup"
             THEN IF popped.out_stack = <<>>
                  THEN ParseFail(popped, "Nothing to group", close_token)
                  ELSE add_and_push(popped,
                                    AstNode("Group", close_token,
                                            popped.out_stack[Len(popped.out_stack)], 0 - 1), 1)
             ELSE add_group(apply_operator(popped, op_token), close_token)

RECURSIVE pop_operators(_, _)
\* the while loop of the binary-operator arm of from_tokens
pop_operators(st, op_token) ==
    IF st.fail # "None" \/ st.op_stack = <<>> THEN st
    ELSE LET previous_op == st.op_stack[Len(st.op_stack)] IN
         IF precedes(op_token, previous_op) /\ ~same_precedence_as(op_token, previous_op)
         THEN st
         ELSE pop_operators(
                  apply_operator([st EXCEPT !.op_stack = SubSeq(@, 1, Len(@) - 1)],
                                 previous_op),
                  op_token)

\* an empty group: the Literal(EmptyString) operand pushed for "()"
empty_group_operand(st, open_token, next_is_close) ==
    IF next_is_close
    THEN add_and_push(st, AstNode("Literal", empty_string(open_token.end), 0 - 1, 0 - 1), 0)
    ELSE st

\* one iteration of the for loop of from_tokens
parse_token(st, token, next_is_close) ==
    CASE token.kind = "Literal" ->
            add_and_push(st, AstNode("Literal", token, 0 - 1, 0 - 1), 0)
      [] token.kind = "OpenGroup" ->
            empty_group_operand([st EXCEPT !.op_stack = Append(@, token)],
                                token, next_is_close)
      [] token.kind = "CloseGroup" -> add_group(st, token)
      [] token.kind = "Quantifier" ->
            IF st.out_stack = <<>>
            THEN ParseFail(st, "No operand found for quantifier", token)
            ELSE add_and_push(st, AstNode("Quantifier", token,
                                          st.out_stack[Len(st.out_stack)], 0 - 1), 1)
      [] OTHER ->
            LET drained == pop_operators(st, token) IN
            IF drained.fail # "None" THEN drained
            ELSE [drained EXCEPT !.op_stack = Append(@, token)]

\* a from_tokens that returns with the operators still on op_stack
flush_operators_left_pending(st) == st

RECURSIVE flush_operators(_)
\* the final while loop of from_tokens
flush_operators(st) ==
    IF st.fail # "None" \/ st.op_stack = <<>> THEN st
    ELSE flush_operators(
             apply_operator([st EXCEPT !.op_stack = SubSeq(@, 1, Len(@) - 1)],
                            st.op_stack[Len(st.op_stack)]))

RECURSIVE parse_from(_, _, _)
parse_from(st, tokens, k) ==
    IF st.fail # "None" THEN st
    ELSE IF k > Len(tokens) THEN flush_operators(st)
    ELSE parse_from(parse_token(st, tokens[k],
                                k < Len(tokens) /\ tokens[k + 1].kind = "CloseGroup"),
                    tokens, k + 1)

\* Ast::from_tokens
from_tokens(tokens) ==
    parse_from([ast |-> <<>>, out_stack |-> <<>>, op_stack |-> <<>>,
                fail |-> "None", fail_pos |-> 0, aborted |-> FALSE], tokens, 1)

(***************************************************************************)
(* NFA primitives (src/src/gex/machine.rs, src/src/gex/features.rs)        *)
(***************************************************************************)

\* Rule: Range(lo, hi, positive) | Not(lo) | IsWord(positive) |
\* IsDigit(positive) | IsWhitespace(positive) | Null
Range(lo, hi, positive) == [kind |-> "Range", lo |-> lo, hi |-> hi, positive |-> positive]
Not(value) == [kind |-> "Not", lo |-> value, hi |-> value, positive |-> TRUE]
IsWord(positive) == [kind |-> "IsWord", lo |-> 0, hi |-> 0, positive |-> positive]
IsDigit(positive) == [kind |-> "IsDigit", lo |-> 0, hi |-> 0, positive |-> positive]
IsWhitespace(positive) == [kind |-> "IsWhitespace", lo |-> 0, hi |-> 0, positive |-> positive]
Null == [kind |-> "Null", lo |-> 0, hi |-> 0, positive |-> TRUE]

\* Next: Target(state) | Accept
Target(n) == [kind |-> "Target", n |-> n]
Accept == [kind |-> "Accept", n |-> 0]

\* Transition = (Rule, Next)
Transition(rule, next) == [rule |-> rule, next |-> next]

\* machine.rs FlagMasks::ShortCircuit = 0x1 (a State's own flags word)
ShortCircuitMask == 1

\* State::from_transitions / short_circuit_from_transitions / accept_state
from_transitions(transitions) == [transitions |-> transitions, flags |-> 0]
short_circuit_from_transitions(transitions) == [transitions |-> transitions, flags |-> ShortCircuitMask]
accept_state == from_transitions(<<Transition(Null, Accept)>>)

\* State::short_circuit
short_circuit(state) == (state.flags % (2 * ShortCircuitMask)) \div ShortCircuitMask # 0

\* A 64-bit feature flag word is held as its two bit fields: hi is bits
\* 48..63 and lo is bits 0..47, the word being hi * 2^48 + lo.
\* machine.rs FlagShifts::CapturingGroup = 48 is the split between them.
FlagWord(hi, lo) == [hi |-> hi, lo |-> lo]

\* machine.rs FlagMasks::CloseGroup = 0x2
MachineCloseGroupMask == 2

\* features.rs FlagShifts::CapturingGroup = 0, FlagShifts::CloseGroup = 16
FeaturesCapturingGroupShift == 0
FeaturesCloseGroupShift == 16

\* 1 << n
Pow2(n) == 2 ^ n

\* GexFeatures::group_number: (flags >> FlagShifts::CapturingGroup) as u16,
\* with the FlagShifts of features.rs
group_number(flags) == (flags.lo \div Pow2(FeaturesCapturingGroupShift)) % 65536

\* the close bit read by GexFeatures::group_numbers:
\* (flags & FlagMasks::CloseGroup) >> FlagShifts::CloseGroup of features.rs
close_group_flag(flags) == (flags.lo \div Pow2(FeaturesCloseGroupShift)) % 2

\* GexFeatures::group_numbers: None when the state has no entry
group_numbers(features, state_label) ==
    IF state_label \in DOMAIN features
    THEN [i \in 1..Len(features[state_label]) |->
              <<group_number(features[state_label][i]),
                close_group_flag(features[state_label][i])>>]
    ELSE <<>>

\* GexMachine::from_states
from_states(states) ==
    [states |-> states, features |-> <<>>, max_group_index |-> 0]

\* GexMachine::size
size(m) == Len(m.states)

\* states_shifter: every Target moved by shift
states_shifter(shift, state) ==
    [state EXCEPT !.transitions =
        [i \in 1..Len(@) |->
            IF @[i].next.kind = "Target"
            THEN Transition(@[i].rule, Target(@[i].next.n + shift))
            ELSE @[i]]]

\* the states vector with the state of id `idx` given one more transition
push_transition(states, idx, transition) ==
    [states EXCEPT ![idx + 1].transitions = Append(@, transition)]

RECURSIVE shifted_flags(_, _)
\* the filter(..).map(..) chain of add_shifted_flags over one Vec<u64>
shifted_flags(flags_vec, shift) ==
    IF flags_vec = <<>> THEN <<>>
    ELSE IF group_number(Head(flags_vec)) # 0
         THEN <<FlagWord(group_number(Head(flags_vec)) + shift, Head(flags_vec).lo)>>
              \o shifted_flags(Tail(flags_vec), shift)
         ELSE shifted_flags(Tail(flags_vec), shift)

\* GexMachine::add_shifted_flags: the feature map after the flags of the
\* other machine are moved in.  Flags whose group number (as
\* GexFeatures::group_number reads it) is 0 are filtered out; the others get
\* bits 48..63 cleared and set to that number plus self.max_group_index.
add_shifted_flags(self, other_state_flags, old_accept_idx, maintain_root) ==
    LET new_idx(state_idx) == IF maintain_root /\ state_idx = 0
                              THEN state_idx
                              ELSE state_idx + old_accept_idx
        moved == {new_idx(s) : s \in DOMAIN other_state_flags}
        source(k) == CHOOSE s \in DOMAIN other_state_flags : new_idx(s) = k
    IN  [k \in (DOMAIN self.features) \cup moved |->
            (IF k \in DOMAIN self.features THEN self.features[k] ELSE <<>>)
            \o (IF k \in moved
                THEN shifted_flags(other_state_flags[source(k)], self.max_group_index)
                ELSE <<>>)]

(***************************************************************************)
(* NFA combinators (src/src/gex/machine.rs)                                *)
(***************************************************************************)

\* GexMachine::cons
cons(self, other) ==
    LET old_accept_idx == size(self) - 1
        popped == SubSeq(self.states, 1, Len(self.states) - 1)
        new_states == [i \in 1..Len(other.states) |->
                          states_shifter(old_accept_idx, other.states[i])]
    IN  [states |-> popped \o new_states,
         features |-> add_shifted_flags(self, other.features, old_accept_idx, FALSE),
         max_group_index |-> self.max_group_index + other.max_group_index]

\* GexMachine::or
or(self, other) ==
    LET other_start == size(self)
        with_branch == push_transition(self.states, 0, Transition(Null, Target(other_start)))
        new_accept_idx == size(self) + Len(other.states) - 1
        old_accept_idx == size(self) - 1
        last == with_branch[Len(with_branch)].transitions
        old_accept == last[Len(last)]
        retargeted ==
            [with_branch EXCEPT ![Len(with_branch)].transitions =
                [last EXCEPT ![Len(last)] =
                    Transition(old_accept.rule, Target(new_accept_idx))]]
        new_states == [i \in 1..Len(other.states) |->
                          states_shifter(other_start, other.states[i])]
    IN  [states |-> retargeted \o new_states,
         features |-> add_shifted_flags(self, other.features, old_accept_idx, TRUE),
         max_group_index |-> self.max_group_index + other.max_group_index]

\* HashMap entry(idx).and_modify(push flag).or_insert(vec![flag])
push_flag(features, idx, flag) ==
    [k \in (DOMAIN features) \cup {idx} |->
        IF k = idx
        THEN (IF k \in DOMAIN features THEN features[k] ELSE <<>>) \o <<flag>>
        ELSE features[k]]

\* GexMachine::group
group(self) ==
    LET new_index == self.max_group_index + 1
        last_idx == Len(self.states) - 1
        start_flag == FlagWord(new_index, 0)
        end_flag == FlagWord(new_index, MachineCloseGroupMask)
    IN  [states |-> self.states,
         features |-> push_flag(push_flag(self.features, 0, start_flag), last_idx, end_flag),
         max_group_index |-> new_index]

\* an accept_zero whose skip transition aims one state past the new accept
accept_zero_past_the_end(self) ==
    [self EXCEPT !.states = push_transition(@, 0, Transition(Null, Target(size(self) + 1)))]

\* GexMachine::accept_zero
accept_zero(self) ==
    [self EXCEPT !.states = push_transition(@, 0, Transition(Null, Target(size(self))))]

\* GexMachine::accept_repeats
accept_repeats(self) ==
    [self EXCEPT !.states = push_transition(@, size(self) - 1, Transition(Null, Target(0)))]

\* a finalize_quantifier that appends the new accept state and leaves the
\* old accept transition as it was
finalize_quantifier_keeping_old_accept(self) ==
    [self EXCEPT !.states = Append(@, accept_state)]

\* GexMachine::finalize_quantifier
finalize_quantifier(self) ==
    LET new_accept_idx == size(self) IN
    [self EXCEPT !.states =
        Append([@ EXCEPT ![new_accept_idx].transitions =
                    [i \in 1..Len(@) |->
                        IF @[i].next.kind = "Accept"
                        THEN Transition(@[i].rule, Target(new_accept_idx))
                        ELSE @[i]]],
               accept_state)]

zero_or_more(self) == finalize_quantifier(accept_repeats(accept_zero(self)))

one_or_more(self) == finalize_quantifier(accept_repeats(self))

zero_or_one(self) == finalize_quantifier(accept_zero(self))

(***************************************************************************)
(* Leaf machines (src/src/gex/simple_machines.rs)                          *)
(***************************************************************************)

\* whether &input[start..end] is a valid slice (it panics otherwise)
CanSlice(input, start, end) ==
    /\ start <= end
    /\ end <= ByteLen(input)
    /\ IsCharBoundary(input, start)
    /\ IsCharBoundary(input, end)

leaf(class_state) ==
    from_states(<<from_transitions(<<Transition(Null, Target(1))>>), class_state, accept_state>>)

machine_for_character(character) ==
    leaf(from_transitions(<<Transition(Range(Code(character), Code(character), TRUE), Target(2))>>))

\* the machine of a zero-width input range
empty_machine ==
    from_states(<<from_transitions(<<Transition(Null, Target(1))>>), accept_state>>)

\* machine_for: the first scalar of the token's range, if it has one
machine_for(token, input) ==
    LET text == StrRange(input, token.start, token.end) IN
    IF text # <<>> THEN machine_for_character(text[1]) ELSE empty_machine

wildcard_machine ==
    leaf(from_transitions(<<Transition(Range(0, 1114111, TRUE), Target(2))>>))

char_class_escape_machine(positive, transitions) ==
    leaf(IF positive THEN from_transitions(transitions)
                     ELSE short_circuit_from_transitions(transitions))

word_char_machine(positive) ==
    char_class_escape_machine(positive,
        <<Transition(IsWord(positive), Target(2)),
          IF positive THEN Transition(Range(Code("_"), Code("_"), TRUE), Target(2))
                      ELSE Transition(Not(Code("_")), Target(2))>>)

digit_char_machine(positive) ==
    char_class_escape_machine(positive, <<Transition(IsDigit(positive), Target(2))>>)

whitespace_char_machine(positive) ==
    char_class_escape_machine(positive, <<Transition(IsWhitespace(positive), Target(2))>>)

RECURSIVE class_rules(_, _, _, _, _)
\* the while loop of manual_character_class_machine over class_contents:
\* result_stack holds the single scalars, ranges the Range rules
class_rules(contents, i, result_stack, ranges, positive) ==
    IF i > Len(contents)
    THEN [panic |-> FALSE, result_stack |-> result_stack, ranges |-> ranges]
    ELSE LET character == contents[i]
             has_next == i + 1 <= Len(contents)
             has_prev == result_stack # <<>>
             failed == [panic |-> TRUE, result_stack |-> <<>>, ranges |-> <<>>]
         IN  IF character = "\\"
             THEN IF has_next
                  THEN class_rules(contents, i + 2, Append(result_stack, contents[i + 1]),
                                   ranges, positive)
                  ELSE failed
             ELSE IF character = "-"
             THEN IF has_next /\ has_prev
                  THEN LET next == contents[i + 1]
                           prev == result_stack[Len(result_stack)]
                       IN  IF Code(next) < Code(prev)
                           THEN failed
                           ELSE class_rules(contents, i + 2, result_stack,
                                    Append(ranges, Range(Code(prev), Code(next), positive)),
                                    positive)
                  ELSE IF has_next
                  THEN class_rules(contents, i + 2,
                                   result_stack \o <<"-", contents[i + 1]>>, ranges, positive)
                  ELSE IF has_prev
                  THEN class_rules(contents, i + 1, Append(result_stack, "-"),
                                   ranges, positive)
                  ELSE class_rules(contents, i + 1, result_stack, ranges, positive)
             ELSE class_rules(contents, i + 1, Append(result_stack, character),
                              ranges, positive)

\* manual_character_class_machine; input_class is the text "[...]" of the
\* token.  A panic (range out of order) is reported in the panic field.
manual_character_class_machine(positive, input_class) ==
    LET start == IF positive THEN 1 ELSE 2
        class_contents == SubSeq(input_class, start + 1, Len(input_class) - 1)
        parsed == class_rules(class_contents, 1, <<>>, <<>>, positive)
        rules == parsed.ranges \o
                 [k \in 1..Len(parsed.result_stack) |->
                     Range(Code(parsed.result_stack[k]), Code(parsed.result_stack[k]), positive)]
        transitions == [k \in 1..Len(rules) |-> Transition(rules[k], Target(2))]
    IN  [panic |-> parsed.panic,
         machine |-> leaf(IF positive THEN from_transitions(transitions)
                                      ELSE short_circuit_from_transitions(transitions))]

(***************************************************************************)
(* Compiler (src/src/compile/compiler.rs)                                  *)
(***************************************************************************)

NoMachine == from_states(<<>>)

Lowered(stack) == [status |-> "Ok", stack |-> stack, info |-> "None"]

LowerFail(status, info) == [status |-> status, stack |-> <<>>, info |-> info]

\* the CharacterClass arm of the Literal arm
lower_class(stack, token, input) ==
    CASE token.class = "Word" -> Lowered(Append(stack, word_char_machine(token.positive)))
      [] token.class = "Digit" -> Lowered(Append(stack, digit_char_machine(token.positive)))
      [] token.class = "Whitespace" ->
            Lowered(Append(stack, whitespace_char_machine(token.positive)))
      [] token.class = "Manual" ->
            IF ~CanSlice(input, token.start, token.end)
            THEN LowerFail("Panic", "byte index is not a char boundary")
            ELSE LET built == manual_character_class_machine(token.positive,
                                  StrRange(input, token.start, token.end))
                 IN  IF built.panic
                     THEN LowerFail("Panic", "Range is out of order in character set")
                     ELSE Lowered(Append(stack, built.machine))

\* the Literal arm of compile's match
lower_literal(stack, node, input) ==
    LET token == node.token IN
    CASE node.sub = "Wildcard" -> Lowered(Append(stack, wildcard_machine))
      [] node.sub = "Character" ->
            IF CanSlice(input, token.start, token.end)
            THEN Lowered(Append(stack, machine_for(token, input)))
            ELSE LowerFail("Panic", "byte index is not a char boundary")
      [] node.sub = "EscapedCharacter" ->
            IF ~CanSlice(input, token.start, token.end)
            THEN LowerFail("Panic", "byte index is not a char boundary")
            ELSE IF Len(StrRange(input, token.start, token.end)) < 2
            THEN LowerFail("Panic", "Unfinished escape sequence during compilation")
            ELSE Lowered(Append(stack,
                     machine_for_character(StrRange(input, token.start, token.end)[2])))
      [] node.sub = "CharacterClass" -> lower_class(stack, token, input)
      [] node.sub = "EmptyString" -> LowerFail("Panic", "Empty string not implemented")

\* get_operand: pop the combination stack, or MissingOperand(info)
get_operand(info, combination_stack) ==
    IF combination_stack = <<>>
    THEN [ok |-> FALSE, info |-> info, machine |-> NoMachine, rest |-> <<>>]
    ELSE [ok |-> TRUE, info |-> info,
          machine |-> combination_stack[Len(combination_stack)],
          rest |-> SubSeq(combination_stack, 1, Len(combination_stack) - 1)]

\* the Quantifier arm of compile's match
lower_quantifier(stack, node) ==
    LET operand == get_operand(CASE node.sub = "ZeroOrMore" -> "'*' (zero or more)"
                                 [] node.sub = "OneOrMore" -> "'+' (one or more)"
                                 [] node.sub = "ZeroOrOne" -> "'?' (zero or one)", stack)
    IN  IF ~operand.ok THEN LowerFail("MissingOperand", operand.info)
        ELSE Lowered(Append(operand.rest,
                 CASE node.sub = "ZeroOrMore" -> zero_or_more(operand.machine)
                   [] node.sub = "OneOrMore" -> one_or_more(operand.machine)
                   [] node.sub = "ZeroOrOne" -> zero_or_one(operand.machine)))

\* the Cons arm
lower_cons(stack) ==
    LET right == get_operand("'cons' (right hand side)", stack)
        left == get_operand("'cons' (left hand side)", right.rest)
    IN  IF ~right.ok THEN LowerFail("MissingOperand", right.info)
        ELSE IF ~left.ok THEN LowerFail("MissingOperand", left.info)
        ELSE Lowered(Append(left.rest, cons(left.machine, right.machine)))

\* the Alternation arm
lower_alternation(stack) ==
    LET right == get_operand("'|' (alternation right hand side)", stack)
        left == get_operand("'|' (alternation left hand side)", right.rest)
    IN  IF ~right.ok THEN LowerFail("MissingOperand", right.info)
        ELSE IF ~left.ok THEN LowerFail("MissingOperand", left.info)
        ELSE Lowered(Append(left.rest, or(left.machine, right.machine)))

\* the Group arm
lower_group(stack) ==
    LET operand == get_operand("'()' (grouping)", stack) IN
    IF ~operand.ok THEN LowerFail("MissingOperand", operand.info)
    ELSE Lowered(Append(operand.rest, group(operand.machine)))

\* one iteration of the for loop of compile
lower_node(stack, node, input) ==
    CASE node.kind = "Literal" -> lower_literal(stack, node, input)
      [] node.kind = "Quantifier" -> lower_quantifier(stack, node)
      [] node.kind = "Cons" -> lower_cons(stack)
      [] node.kind = "Alternation" -> lower_alternation(stack)
      [] node.kind = "Group" -> lower_group(stack)

RECURSIVE lower_from(_, _, _, _)
lower_from(stack, ast, k, input) ==
    IF k > Len(ast)
    THEN Lowered(stack)
    ELSE LET r == lower_node(stack, ast[k], input) IN
         IF r.status # "Ok" THEN r ELSE lower_from(r.stack, ast, k + 1, input)

CompileResult(status, machine, info, pos) ==
    [status |-> status, machine |-> machine, info |-> info, pos |-> pos]

\* a compile that answers an empty combination stack with the machine of
\* the empty string instead of an error
compile_accepting_no_nfa(input) ==
    LET tokens == tokenize(input) IN
    IF ~tokens.ok
    THEN CompileResult("LexicalError", NoMachine, tokens.err, tokens.pos)
    ELSE LET parsed == from_tokens(tokens.tokens) IN
         IF parsed.fail # "None"
         THEN CompileResult(IF parsed.aborted THEN "Panic" ELSE "SyntaxError",
                            NoMachine, parsed.fail, parsed.fail_pos)
         ELSE LET lowered == lower_from(<<>>, parsed.ast, 1, input) IN
              IF lowered.status # "Ok"
              THEN CompileResult(lowered.status, NoMachine, lowered.info, 0)
              ELSE IF lowered.stack = <<>>
              THEN CompileResult("Ok", empty_machine, "None", 0)
              ELSE CompileResult("Ok", lowered.stack[Len(lowered.stack)], "None", 0)

\* compile: tokenize, Ast::from_tokens, then the lowering loop; the machine
\* left on top of the combination stack is the result
compile(input) ==
    LET tokens == tokenize(input) IN
    IF ~tokens.ok
    THEN CompileResult("LexicalError", NoMachine, tokens.err, tokens.pos)
    ELSE LET parsed == from_tokens(tokens.tokens) IN
         IF parsed.fail # "None"
         THEN CompileResult(IF parsed.aborted THEN "Panic" ELSE "SyntaxError",
                            NoMachine, parsed.fail, parsed.fail_pos)
         ELSE LET lowered == lower_from(<<>>, parsed.ast, 1, input) IN
              IF lowered.status # "Ok"
              THEN CompileResult(lowered.status, NoMachine, lowered.info, 0)
              ELSE IF lowered.stack = <<>>
              THEN CompileResult("Catastrophic", NoMachine, "No NFA created", 0)
              ELSE CompileResult("Ok", lowered.stack[Len(lowered.stack)], "None", 0)

(***************************************************************************)
(* Matcher (src/src/gex/gmatcher.rs, src/src/matcher.rs)                   *)
(*                                                                         *)
(* The active states are a HashSet<usize>; the order in which a HashSet is *)
(* iterated is not fixed, so every loop over one is taken in every order   *)
(* and the operations yield the set of their possible outcomes.            *)
(***************************************************************************)

\* char::is_alphanumeric, char::is_numeric, char::is_whitespace on the
\* scalars of Code
is_alphanumeric(c) == Code(c) \in (48..57) \cup (65..90) \cup (97..122) \cup {233}
is_numeric(c) == Code(c) \in 48..57
is_whitespace(c) == Code(c) \in {9, 10, 11, 12, 13, 32}

\* a ^ !positive
XorNot(a, positive) == IF positive THEN a ELSE ~a

\* an evaluate_rule whose Range arm leaves out `^ !positive`
evaluate_rule_ignoring_positive(rule, given) ==
    CASE rule.kind = "Range" -> rule.lo <= Code(given) /\ Code(given) <= rule.hi
      [] rule.kind = "Not" -> Code(given) # rule.lo
      [] rule.kind = "IsWord" -> XorNot(is_alphanumeric(given), rule.positive)
      [] rule.kind = "IsDigit" -> XorNot(is_numeric(given), rule.positive)
      [] rule.kind = "IsWhitespace" -> XorNot(is_whitespace(given), rule.positive)
      [] rule.kind = "Null" -> FALSE

\* GexMachine::evaluate_rule
evaluate_rule(rule, given) ==
    CASE rule.kind = "Range" ->
            XorNot(rule.lo <= Code(given) /\ Code(given) <= rule.hi, rule.positive)
      [] rule.kind = "Not" -> Code(given) # rule.lo
      [] rule.kind = "IsWord" -> XorNot(is_alphanumeric(given), rule.positive)
      [] rule.kind = "IsDigit" -> XorNot(is_numeric(given), rule.positive)
      [] rule.kind = "IsWhitespace" -> XorNot(is_whitespace(given), rule.positive)
      [] rule.kind = "Null" -> FALSE

\* Option<usize>::None for MatchCandidate.end
NoEnd == 0 - 1

\* MatchCandidate::with_start
with_start(start) == [start |-> start, end |-> NoEnd]

\* GexMatcher { captures }: on is captures.is_some(), captures the map from
\* group number to MatchCandidate; panic records an unwrap of a missing one
GexMatcher(on) == [on |-> on, captures |-> <<>>, panic |-> FALSE]

\* HashMap::insert
MapInsert(map, key, value) ==
    [k \in (DOMAIN map) \cup {key} |-> IF k = key THEN value ELSE map[k]]

RECURSIVE capture_flags(_, _, _, _)
\* the for loop of capture_group over group_numbers
capture_flags(matcher, numbers, i, position) ==
    IF i > Len(numbers) \/ matcher.panic THEN matcher
    ELSE LET number == numbers[i][1]
             close_flag == numbers[i][2]
         IN  IF close_flag = 0
             THEN capture_flags([matcher EXCEPT !.captures =
                                     MapInsert(@, number, with_start(position))],
                                numbers, i + 1, position)
             ELSE IF number \in DOMAIN matcher.captures
             THEN capture_flags([matcher EXCEPT !.captures[number].end = position],
                                numbers, i + 1, position)
             ELSE [matcher EXCEPT !.panic = TRUE]

\* GexMachine::capture_group
capture_group(self, matcher, state_label, position) ==
    capture_flags(matcher, group_numbers(self.features, state_label), 1, position)

\* GexMachine::evaluate_state_flags
evaluate_state_flags(self, matcher, state_label, position) ==
    IF matcher.on THEN capture_group(self, matcher, state_label, position) ELSE matcher

RECURSIVE Orders(_)
\* the orders in which a HashSet may be iterated
Orders(set) ==
    IF set = {} THEN {<<>>}
    ELSE UNION {{<<x>> \o rest : rest \in Orders(set \ {x})} : x \in set}

\* Vec::get: whether the machine has a state of this label
HasState(self, state_label) == state_label + 1 \in 1..Len(self.states)

RECURSIVE null_edges(_, _, _, _)
\* the for loop over the transitions of last_state_label in
\* collapse_null_transitions; acc holds states (the stack), collapsed_states
\* and accept
null_edges(transitions, i, last_state_label, acc) ==
    IF i > Len(transitions) THEN acc
    ELSE IF transitions[i].rule.kind = "Null"
    THEN null_edges(transitions, i + 1, last_state_label,
             IF transitions[i].next.kind = "Target"
             THEN [acc EXCEPT
                     !.collapsed_states = (@ \cup {transitions[i].next.n}) \ {last_state_label},
                     !.states = Append(@, transitions[i].next.n)]
             ELSE [acc EXCEPT !.accept = TRUE,
                              !.collapsed_states = @ \ {last_state_label}])
    ELSE null_edges(transitions, i + 1, last_state_label, acc)

RECURSIVE collapse_loop(_, _, _, _, _)
\* the while loop of collapse_null_transitions
collapse_loop(self, acc, visited, position, matcher) ==
    IF acc.states = <<>>
    THEN [states |-> acc.collapsed_states, accept |-> acc.accept, matcher |-> matcher]
    ELSE LET last_state_label == acc.states[Len(acc.states)]
             popped == [acc EXCEPT !.states = SubSeq(@, 1, Len(@) - 1),
                                   !.collapsed_states = @ \cup {last_state_label}]
         IN  IF last_state_label \in visited
             THEN collapse_loop(self, popped, visited, position, matcher)
             ELSE IF HasState(self, last_state_label)
             THEN collapse_loop(self,
                      null_edges(self.states[last_state_label + 1].transitions, 1,
                                 last_state_label, popped),
                      visited \cup {last_state_label}, position,
                      evaluate_state_flags(self, matcher, last_state_label, position))
             ELSE collapse_loop(self, popped, visited \cup {last_state_label},
                                position, matcher)

\* GexMachine::collapse_null_transitions: one outcome per order of the Vec
\* collected from curr_states
collapse_null_transitions(self, curr_states, position, matcher) ==
    {collapse_loop(self, [states |-> order, collapsed_states |-> {}, accept |-> FALSE],
                   {}, position, matcher) : order \in Orders(curr_states)}

RECURSIVE rule_loop(_, _, _, _)
\* the inner for loop of do_transition over the transitions of one state;
\* acc holds states_to_add, consumed_a_character, accepted, short_circuit
rule_loop(state, i, input_char, acc) ==
    IF i > Len(state.transitions) THEN acc
    ELSE IF evaluate_rule(state.transitions[i].rule, input_char)
    THEN rule_loop(state, i + 1, input_char,
             IF state.transitions[i].next.kind = "Target"
             THEN [acc EXCEPT !.consumed_a_character = TRUE,
                              !.states_to_add = @ \cup {state.transitions[i].next.n}]
             ELSE [acc EXCEPT !.consumed_a_character = TRUE, !.accepted = TRUE])
    ELSE IF short_circuit(state)
    THEN [acc EXCEPT !.consumed_a_character = FALSE, !.short_circuit = TRUE]
    ELSE rule_loop(state, i + 1, input_char, acc)

RECURSIVE state_loop(_, _, _, _, _, _)
\* the outer for loop of do_transition over curr_states, taken in `order`;
\* acc holds new_states, consumed_a_character, accepted and the matcher
state_loop(self, order, i, input_char, position, acc) ==
    IF i > Len(order) THEN acc
    ELSE IF ~HasState(self, order[i])
    THEN state_loop(self, order, i + 1, input_char, position, acc)
    ELSE LET flagged == evaluate_state_flags(self, acc.matcher, order[i], position)
             rules == rule_loop(self.states[order[i] + 1], 1, input_char,
                          [states_to_add |-> {},
                           consumed_a_character |-> acc.consumed_a_character,
                           accepted |-> acc.accepted,
                           short_circuit |-> FALSE])
             after == [acc EXCEPT !.matcher = flagged,
                                  !.consumed_a_character = rules.consumed_a_character,
                                  !.accepted = rules.accepted]
         IN  IF rules.short_circuit
             THEN after
             ELSE state_loop(self, order, i + 1, input_char, position,
                      [after EXCEPT !.new_states = @ \cup rules.states_to_add])

\* GexMachine::do_transition: the outcomes (new states, accepted, new
\* position, matcher) over the iteration orders
do_transition(self, curr_states, input_char, matcher, position, accepted) ==
    UNION {
        LET looped == state_loop(self, order, 1, input_char, position,
                          [new_states |-> {}, consumed_a_character |-> FALSE,
                           accepted |-> accepted, matcher |-> matcher])
            new_position == IF looped.consumed_a_character THEN position + 1 ELSE position
        IN  {[states |-> c.states,
              accepted |-> looped.accepted \/ c.accept,
              position |-> new_position,
              matcher |-> c.matcher]
             : c \in collapse_null_transitions(self, looped.new_states, new_position,
                                               looped.matcher)}
        : order \in Orders(curr_states)}

\* Option<Match>; Panic is an aborted call
Some(start, end) == [tag |-> "Some", start |-> start, end |-> end]
None == [tag |-> "None", start |-> 0, end |-> 0]
Panic == [tag |-> "Panic", start |-> 0, end |-> 0]

\* a shift that moves the start of the match and leaves its end
shift_start_only(found, by) == Some(found.start + by, found.end)

\* Match::shift
shift(found, by) == Some(found.start + by, found.end + by)

\* the end of run_machine: Some(Match::from_candidate) when candidate.end is set
run_result(candidate_end, matcher) ==
    [found |-> IF matcher.panic THEN Panic
               ELSE IF candidate_end # NoEnd THEN Some(0, candidate_end) ELSE None,
     matcher |-> matcher]

RECURSIVE run_loop(_, _, _, _, _, _, _)
\* the for loop of run_machine over input[k..]
run_loop(self, input, k, curr_states, position, accepted, run) ==
    IF k > Len(input) \/ run.matcher.panic
    THEN {run_result(run.candidate_end, run.matcher)}
    ELSE UNION {
        LET advanced == t.position > position
            new_position == IF advanced THEN t.position ELSE position
            new_run == [candidate_end |-> IF advanced /\ t.accepted
                                          THEN new_position ELSE run.candidate_end,
                        matcher |-> t.matcher]
        IN  IF t.states = {}
            THEN {run_result(new_run.candidate_end, new_run.matcher)}
            ELSE run_loop(self, input, k + 1, t.states, new_position, t.accepted, new_run)
        : t \in do_transition(self, curr_states, input[k], run.matcher, position, accepted)}

\* GexMachine::run_machine: the outcomes [found, matcher]
run_machine(self, input, matcher) ==
    UNION {
        run_loop(self, input, 1, c.states, 0, FALSE,
                 [candidate_end |-> IF c.accept THEN 0 ELSE NoEnd, matcher |-> c.matcher])
        : c \in collapse_null_transitions(self, {0}, 0, matcher)}

RECURSIVE find_scan(_, _, _, _, _, _)
\* the lazy map(..).find(Option::is_some) of find_at over the start offsets
find_scan(self, start_input, offsets, i, at, matcher) ==
    IF i > Len(offsets) THEN {None}
    ELSE UNION {
        IF r.found.tag = "Panic" THEN {Panic}
        ELSE IF r.found.tag = "Some" THEN {shift(r.found, offsets[i] + at)}
        ELSE find_scan(self, start_input, offsets, i + 1, at, r.matcher)
        : r \in run_machine(self, StrFrom(start_input, offsets[i]), matcher)}

\* Matcher::find_at for GexMachine: the possible results
find_at(self, input, at) ==
    IF ~CanSlice(input, at, ByteLen(input))
    THEN {Panic}
    ELSE LET start_input == StrFrom(input, at) IN
         find_scan(self, start_input, <<0>> \o CharIndices(start_input), 1, at,
                   GexMatcher(FALSE))

\* Matcher::find
find(self, input) == find_at(self, input, 0)

\* GexMatcher::unwrap_captures with the root match inserted as entry 0
unwrap_captures(matcher, root_match) ==
    LET closed == {k \in DOMAIN matcher.captures : matcher.captures[k].end # NoEnd} IN
    [k \in closed \cup {0} |->
        IF k = 0 THEN [start |-> root_match.start, end |-> root_match.end]
        ELSE [start |-> matcher.captures[k].start, end |-> matcher.captures[k].end]]

\* Matcher::captures for GexMachine: the possible results
captures(self, input) ==
    {IF r.found.tag = "Some"
     THEN [tag |-> "Some", map |-> unwrap_captures(r.matcher, r.found)]
     ELSE [tag |-> r.found.tag, map |-> <<>>]
     : r \in run_machine(self, input, GexMatcher(TRUE))}

(***************************************************************************)
(* The program as a state machine: a pattern is compiled, and the machine  *)
(* is then used through the Matcher operations.                            *)
(***************************************************************************)

VARIABLES pattern, lexed, parsed, compiled, pc, input, found, caps, start_at, last_end, calls,
          combination_stack, applied, closure

vars == <<pattern, lexed, parsed, compiled, pc, input, found, caps, start_at, last_end, calls,
          combination_stack, applied, closure>>

\* bounds of the enumerated patterns and inputs
MaxPatLen == 2
MaxInputLen == 2

PatAlphabet == {"a", "b", "(", ")", "|", "*", "+", "?"}
InputAlphabet == {"a", "b", "U+E9"}

\* all strings over an alphabet up to a length
Strings(alphabet, max_len) == UNION {[1..n -> alphabet] : n \in 0..max_len}

\* patterns and inputs of the repository's tests and of the specification's
\* scenarios
\* the scalars escaped in the patterns `\X`: the metacharacters, the
\* backslash, an ordinary letter and a two-byte scalar
EscapedScalars == {"(", ")", "[", "]", "|", "*", "+", "?", ".", "\\", "a", "U+E9"}

EscapeScenarios == {[pattern |-> <<"\\", x>>, input |-> <<x>>] : x \in EscapedScalars}

\* bracket classes of tests::test_basic_character_class,
\* test_basic_negative_character_class and test_quantified_character_class,
\* and classes with a hyphen at either end of their contents
ClassScenarios ==
    { [pattern |-> <<"[", "a", "b", "c", "]">>, input |-> <<"b">>],
      [pattern |-> <<"[", "a", "-", "c", "x", "]">>, input |-> <<"x">>],
      [pattern |-> <<"[", "^", "a", "b", "c", "]">>, input |-> <<"d">>],
      [pattern |-> <<"[", "^", "a", "-", "z", "]">>, input |-> <<"A">>],
      [pattern |-> <<"[", "a", "b", "c", "]", "+">>, input |-> <<"a", "b", "c", "c", "b", "a">>],
      [pattern |-> <<"[", "^", "a", "b", "c", "]", "+">>, input |-> <<"d", "e", "f">>],
      [pattern |-> <<"[", "a", "-", "z", "]", "*">>, input |-> <<"a">>],
      [pattern |-> <<"[", "^", "a", "-", "z", "]", "?">>, input |-> <<"A">>],
      [pattern |-> <<"[", "-", "]">>, input |-> <<"-">>],
      [pattern |-> <<"[", "-", "a", "]">>, input |-> <<"-">>],
      [pattern |-> <<"[", "a", "-", "]">>, input |-> <<"-">>],
      [pattern |-> <<"[", "a", "-", "c", "]">>, input |-> <<"b">>] }

Scenarios ==
    { [pattern |-> <<"a", "b", "+">>,
       input |-> <<"c", "a", "b", "b", ",", "a", "b", "a", "b", "a", "b", "b", "b", "b",
                   "c", "d", "a", "b", "b", "b">>],
      [pattern |-> <<"(", "a", "b", "c", ")">>,
       input |-> <<"c", "d", "e", "a", "b", "c", "d", "e", "f">>],
      [pattern |-> <<"(", "a", "b", "c", ")", "d", "f", "(", "d", "e", "f", "g", ")",
                     "(", "1", "2", "3", ")">>,
       input |-> <<"a", "b", "c", "d", "f", "d", "e", "f", "g", "1", "2", "3">>],
      [pattern |-> <<"(", "a", "(", "b", "c", "(", "d", "e", ")", ")", ")", "d", "f",
                     "(", "d", "e", "f", "g", ")">>,
       input |-> <<"a", "b", "c", "d", "e", "d", "f", "d", "e", "f", "g", "h">>],
      [pattern |-> <<"(", "a", "b", "c", ")", "d", "f", "(", "d", "e", "f", "g", ")",
                     "|", "(", "1", "2", "3", ")">>,
       input |-> <<"1", "2", "3", "a", "b", "c", "d", "f", "d", "e", "f", "g">>],
      [pattern |-> <<"a", "(", "b", "b", ")", "?">>,
       input |-> <<"a", "b", "a">>],
      [pattern |-> <<"[", "^", "a", "]", "|", "a">>,
       input |-> <<"a">>],
      [pattern |-> <<".", "*">>,
       input |-> <<"U+20AC", "a", "U+1F600">>],
      [pattern |-> <<"a", "|", "a", "b", "b">>,
       input |-> <<"a", "b", "x">>],
      [pattern |-> <<"a", "+", "|", "b">>,
       input |-> <<"a", "b">>],
      [pattern |-> <<"(", "a", ")", "|", "(", "b", ")">>,
       input |-> <<"b">>],
      [pattern |-> <<"(", ")", "a", "f", "(", "(", ")", ")", "d", "(", "f", "(", ")", "f", ")">>,
       input |-> <<"a", "f", "d", "f", "f", "d", "i", "u", "i">>],
      [pattern |-> <<"[", "^", "a", "]", "|", "a", "b">>,
       input |-> <<"a", "b">>],
      [pattern |-> <<"[", "z", "-", "a", "]">>,
       input |-> <<"a">>],
      [pattern |-> <<"a", "[", "^", "b", "-", "a", "]">>,
       input |-> <<"a">>],
      [pattern |-> <<"[", "a", "-", "z", "]">>,
       input |-> <<"x">>] }
    \cup EscapeScenarios \cup ClassScenarios

Patterns == Strings(PatAlphabet, MaxPatLen) \cup {sc.pattern : sc \in Scenarios}

Inputs == Strings(InputAlphabet, MaxInputLen)

\* the inputs a pattern is run on
InputsFor(p) == Inputs \cup {sc.input : sc \in {x \in Scenarios : x.pattern = p}}

NotCompiled == CompileResult("NotCompiled", NoMachine, "None", 0)
NoCaptures == [tag |-> "None", map |-> <<>>]

\* the simulation variable before any call of collapse_null_transitions
NoClosure ==
    [machine |-> NoMachine,
     acc |-> [states |-> <<>>, collapsed_states |-> {}, accept |-> FALSE],
     visited |-> {}, position |-> 0, accepted |-> FALSE,
     expansions |-> <<>>, pops |-> <<>>, iterations |-> 0, fed |-> 0,
     active |-> {}, order |-> <<>>, ch |-> "", new_states |-> {},
     consumed_a_character |-> FALSE, accepted_before |-> FALSE]

\* no combinator has been applied: applied holds the last application, its
\* operands (NoMachine where there is none) and the number applied so far
NothingApplied == [op |-> "none", left |-> NoMachine, right |-> NoMachine, count |-> 0]

\* before tokenize and from_tokens have run
NotLexed == [ok |-> FALSE, tokens |-> <<>>, err |-> "NotLexed", pos |-> 0]
NotParsed ==
    [ast |-> <<>>, out_stack |-> <<>>, op_stack |-> <<>>, fail |-> "NotParsed", fail_pos |-> 0,
     aborted |-> FALSE]

Init ==
    /\ pattern \in Patterns
    /\ lexed = NotLexed
    /\ parsed = NotParsed
    /\ compiled = NotCompiled
    /\ pc = "start"
    /\ input = <<>>
    /\ found = None
    /\ caps = NoCaptures
    /\ start_at = 0
    /\ last_end = 0
    /\ calls = <<>>
    /\ combination_stack = <<>>
    /\ applied = NothingApplied
    /\ closure = NoClosure

\* compile(pattern)
Compile ==
    /\ pc = "start"
    /\ compiled' = compile(pattern)
    /\ pc' = IF compiled'.status = "Ok" THEN "ready" ELSE "rejected"
    /\ UNCHANGED <<closure, combination_stack, applied, pattern, lexed, parsed, input, found, caps, start_at, last_end, calls>>

\* machine.find(input)
Find ==
    /\ pc = "ready"
    /\ \E s \in InputsFor(pattern) :
         /\ input' = s
         /\ found' \in find(compiled.machine, s)
    /\ pc' = "found"
    /\ UNCHANGED <<closure, combination_stack, applied, pattern, lexed, parsed, compiled, caps, start_at, last_end, calls>>

\* machine.captures(input), on the input find was called with
Captures ==
    /\ pc = "found"
    /\ caps' \in captures(compiled.machine, input)
    /\ pc' = "captured"
    /\ UNCHANGED <<closure, combination_stack, applied, pattern, lexed, parsed, compiled, input, found, start_at, last_end, calls>>

\* the offsets of an input at which a search may be started
StartOffsets(s) == {b \in 0..ByteLen(s) : IsCharBoundary(s, b)}

\* machine.try_find_iter_at(input, at, matched): entry
IterStart ==
    /\ pc = "ready"
    /\ \E s \in InputsFor(pattern) :
         /\ input' = s
         /\ \E at \in StartOffsets(s) :
              /\ start_at' = at
              /\ last_end' = at
    /\ calls' = <<>>
    /\ pc' = "iterating"
    /\ UNCHANGED <<closure, combination_stack, applied, pattern, lexed, parsed, compiled, found, caps>>

\* try_find_iter_at without the step past a zero-width match
next_last_end_without_advance(found_match) == found_match.end

\* try_find_iter_at: where the next search starts after a match
next_last_end(found_match) ==
    IF found_match.start = found_match.end THEN found_match.end + 1 ELSE found_match.end

\* try_find_iter_at that goes on after the callback returned Ok(false)
after_callback_ignoring_stop(ret) ==
    IF ret = "Err" THEN "returned Err" ELSE "iterating"

\* try_find_iter_at: the match on the callback's result
after_callback(ret) ==
    CASE ret = "Ok(true)" -> "iterating"
      [] ret = "Ok(false)" -> "returned Ok"
      [] ret = "Err" -> "returned Err"

\* what the callback `matched` may return
CallbackReturns == {"Ok(true)", "Ok(false)", "Err"}

\* one iteration of the loop of try_find_iter_at: find_at from last_end,
\* then the callback on the match
IterStep ==
    /\ pc = "iterating"
    /\ \E r \in find_at(compiled.machine, input, last_end) :
         \/ /\ r.tag = "None"
            /\ pc' = "returned Ok"
            /\ UNCHANGED <<last_end, calls>>
         \/ /\ r.tag = "Panic"
            /\ pc' = "panicked"
            /\ UNCHANGED <<last_end, calls>>
         \/ /\ r.tag = "Some"
            /\ last_end' = next_last_end(r)
            /\ \E ret \in CallbackReturns :
                 /\ calls' = Append(calls, [start |-> r.start, end |-> r.end, ret |-> ret])
                 /\ pc' = after_callback(ret)
    /\ UNCHANGED <<closure, combination_stack, applied, pattern, lexed, parsed, compiled, input, found, caps, start_at>>

Next == Compile \/ Find \/ Captures \/ IterStart \/ IterStep

Spec == Init /\ [][Next]_vars

(***************************************************************************)
(* The front end on its own: tokenize, then Ast::from_tokens, over a       *)
(* wider set of patterns.                                                  *)
(***************************************************************************)

\* bounds of the patterns given to the front end
MaxLexLen == 3
MaxParseLen == 5

LexAlphabet == {"a", "U+E9", "(", ")", "|", "*", "[", "]", "^", "\\", "."}
ParseAlphabet == {"a", "(", ")", "|", "*"}

\* patterns of the tests of tokenize.rs and railroad.rs, and of the
\* specification's examples
FrontScenarios ==
    { <<"a", "b", "*", "|", "c">>,
      <<"a", "|", "b", "|", "c">>,
      <<"a", "b", "c", "d">>,
      <<"(", "a", "|", "b", ")", "*", "c", "+", "(", "d", "e", ")", "?">>,
      <<"[", "^", "a", "-", "z", "]", "+", "\\", "w", "\\", ".">>,
      <<"a", "[", "\\", "]", "]", "b">>,
      <<"a", "[", "^", "U+E9", "]">>,
      <<"U+E9", "[", "a", "]", "(", "U+20AC", ")">>,
      <<"a", "[", "b", "c">>,
      <<"a", "b", "\\">>,
      <<"\\", "\\", "\\", "U+E9">>,
      <<"(", ")", "a">> }

FrontPatterns ==
    Strings(LexAlphabet, MaxLexLen) \cup Strings(ParseAlphabet, MaxParseLen) \cup FrontScenarios

FrontInit ==
    /\ pattern \in FrontPatterns
    /\ lexed = NotLexed
    /\ parsed = NotParsed
    /\ compiled = NotCompiled
    /\ pc = "start"
    /\ input = <<>>
    /\ found = None
    /\ caps = NoCaptures
    /\ start_at = 0
    /\ last_end = 0
    /\ calls = <<>>
    /\ combination_stack = <<>>
    /\ applied = NothingApplied
    /\ closure = NoClosure

\* tokenize(pattern)
Tokenize ==
    /\ pc = "start"
    /\ lexed' = tokenize(pattern)
    /\ pc' = IF lexed'.ok THEN "tokenized" ELSE "lexical error"
    /\ UNCHANGED <<closure, combination_stack, applied, pattern, parsed, compiled, input, found, caps, start_at, last_end, calls>>

\* Ast::from_tokens(tokens)
Parse ==
    /\ pc = "tokenized"
    /\ parsed' = from_tokens(lexed.tokens)
    /\ pc' = IF parsed'.fail = "None" THEN "parsed"
             ELSE IF parsed'.aborted THEN "parse panicked"
             ELSE "syntax error"
    /\ UNCHANGED <<closure, combination_stack, applied, pattern, lexed, compiled, input, found, caps, start_at, last_end, calls>>

FrontNext == Tokenize \/ Parse

FrontSpec == FrontInit /\ [][FrontNext]_vars

(***************************************************************************)
(* The combinators on their own: the combination stack of compile, fed     *)
(* with leaf machines and reduced by the combinators in any order.         *)
(***************************************************************************)

\* bound on the number of combinators applied
MaxCombinators == 3

\* the leaf constructors: machine_for_character, wildcard_machine, a
\* negated class (a short-circuit state)
LeafMachines ==
    { machine_for_character("a"),
      machine_for_character("b"),
      manual_character_class_machine(FALSE, <<"[", "^", "a", "]">>).machine }

\* the state left alone by the combinators
front_vars == <<pattern, lexed, parsed, compiled, pc, input, found, caps, start_at, last_end, calls,
                closure>>

CombInit ==
    /\ pattern = <<>>
    /\ lexed = NotLexed
    /\ parsed = NotParsed
    /\ compiled = NotCompiled
    /\ pc = "lowering"
    /\ input = <<>>
    /\ found = None
    /\ caps = NoCaptures
    /\ start_at = 0
    /\ last_end = 0
    /\ calls = <<>>
    /\ combination_stack = <<>>
    /\ applied = NothingApplied
    /\ closure = NoClosure

\* combination_stack.push(leaf machine)
PushLeaf ==
    /\ applied.count < MaxCombinators
    /\ Len(combination_stack) < 2
    /\ \E m \in LeafMachines : combination_stack' = Append(combination_stack, m)
    /\ applied' = [applied EXCEPT !.op = "leaf", !.left = NoMachine, !.right = NoMachine]
    /\ UNCHANGED front_vars

\* whether a combinator can still be applied to `operands` operands
CanApply(operands) ==
    /\ applied.count < MaxCombinators
    /\ Len(combination_stack) >= operands

\* the stack after its top `operands` machines are replaced by result
Reduced(operands, result) ==
    Append(SubSeq(combination_stack, 1, Len(combination_stack) - operands), result)

TopOperand == combination_stack[Len(combination_stack)]
LeftOperand == combination_stack[Len(combination_stack) - 1]

\* operand.zero_or_more()
ApplyZeroOrMore ==
    /\ CanApply(1)
    /\ combination_stack' = Reduced(1, zero_or_more(TopOperand))
    /\ applied' = [op |-> "zero_or_more", left |-> TopOperand, right |-> NoMachine,
                   count |-> applied.count + 1]
    /\ UNCHANGED front_vars

\* operand.one_or_more()
ApplyOneOrMore ==
    /\ CanApply(1)
    /\ combination_stack' = Reduced(1, one_or_more(TopOperand))
    /\ applied' = [op |-> "one_or_more", left |-> TopOperand, right |-> NoMachine,
                   count |-> applied.count + 1]
    /\ UNCHANGED front_vars

\* operand.zero_or_one()
ApplyZeroOrOne ==
    /\ CanApply(1)
    /\ combination_stack' = Reduced(1, zero_or_one(TopOperand))
    /\ applied' = [op |-> "zero_or_one", left |-> TopOperand, right |-> NoMachine,
                   count |-> applied.count + 1]
    /\ UNCHANGED front_vars

\* operand.group()
ApplyGroup ==
    /\ CanApply(1)
    /\ combination_stack' = Reduced(1, group(TopOperand))
    /\ applied' = [op |-> "group", left |-> TopOperand, right |-> NoMachine,
                   count |-> applied.count + 1]
    /\ UNCHANGED front_vars

\* left.cons(right)
ApplyCons ==
    /\ CanApply(2)
    /\ combination_stack' = Reduced(2, cons(LeftOperand, TopOperand))
    /\ applied' = [op |-> "cons", left |-> LeftOperand, right |-> TopOperand,
                   count |-> applied.count + 1]
    /\ UNCHANGED front_vars

\* left.or(right)
ApplyOr ==
    /\ CanApply(2)
    /\ combination_stack' = Reduced(2, or(LeftOperand, TopOperand))
    /\ applied' = [op |-> "or", left |-> LeftOperand, right |-> TopOperand,
                   count |-> applied.count + 1]
    /\ UNCHANGED front_vars

CombNext ==
    \/ PushLeaf
    \/ ApplyZeroOrMore
    \/ ApplyOneOrMore
    \/ ApplyZeroOrOne
    \/ ApplyGroup
    \/ ApplyCons
    \/ ApplyOr

CombSpec == CombInit /\ [][CombNext]_vars

(***************************************************************************)
(* The simulation, one loop iteration at a time: run_machine collapses the *)
(* Null transitions of the start state, then do_transition consumes a      *)
(* scalar and collapses the Null transitions of the states it produced.    *)
(***************************************************************************)

\* bound on the scalars fed to a machine
MaxSimSteps == 2

\* bound on the iterations of one while loop of collapse_null_transitions
MaxIterations == 24

SimAlphabet == {"a", "b"}

\* machines of `a**`, `a?+`, `a*|b`, `a*b`, `[^a]|a`, `a|[^a]` and `[^a]*`:
\* quantifiers over quantified machines, alternations, a short-circuit state
SimMachines ==
    LET a == machine_for_character("a")
        b == machine_for_character("b")
        not_a == manual_character_class_machine(FALSE, <<"[", "^", "a", "]">>).machine
    IN  { zero_or_more(zero_or_more(a)),
          one_or_more(zero_or_one(a)),
          or(zero_or_more(a), b),
          cons(zero_or_more(a), b),
          or(not_a, a),
          or(a, not_a),
          zero_or_more(not_a) }

\* the locals of collapse_null_transitions at its entry, `order` being the
\* Vec collected from curr_states
StartClosure(order) ==
    [states |-> order, collapsed_states |-> {}, accept |-> FALSE]

\* an iteration that does not record the state it expands in visited
collapse_iteration_forgetting_visited(self, acc, visited) ==
    LET last_state_label == acc.states[Len(acc.states)]
        popped == [acc EXCEPT !.states = SubSeq(@, 1, Len(@) - 1),
                              !.collapsed_states = @ \cup {last_state_label}]
    IN  IF HasState(self, last_state_label)
        THEN [acc |-> null_edges(self.states[last_state_label + 1].transitions, 1,
                                 last_state_label, popped),
              visited |-> visited]
        ELSE [acc |-> popped, visited |-> visited]

\* one iteration of the while loop of collapse_null_transitions on the
\* locals acc (states, collapsed_states, accept) and visited
collapse_iteration(self, acc, visited) ==
    LET last_state_label == acc.states[Len(acc.states)]
        popped == [acc EXCEPT !.states = SubSeq(@, 1, Len(@) - 1),
                              !.collapsed_states = @ \cup {last_state_label}]
    IN  IF last_state_label \in visited
        THEN [acc |-> popped, visited |-> visited]
        ELSE IF HasState(self, last_state_label)
        THEN [acc |-> null_edges(self.states[last_state_label + 1].transitions, 1,
                                 last_state_label, popped),
              visited |-> visited \cup {last_state_label}]
        ELSE [acc |-> popped, visited |-> visited \cup {last_state_label}]

SimInit ==
    /\ pattern = <<>>
    /\ lexed = NotLexed
    /\ parsed = NotParsed
    /\ compiled = NotCompiled
    /\ pc = "collapsing"
    /\ input = <<>>
    /\ found = None
    /\ caps = NoCaptures
    /\ start_at = 0
    /\ last_end = 0
    /\ calls = <<>>
    /\ combination_stack = <<>>
    /\ applied = NothingApplied
    /\ \E m \in SimMachines :
          closure = [NoClosure EXCEPT
                        !.machine = m,
                        !.acc = StartClosure(<<0>>),
                        !.expansions = [q \in 0..(size(m) - 1) |-> 0],
                        !.pops = [q \in 0..(size(m) - 1) |-> 0]]

\* the state left alone by the simulation
sim_vars == <<pattern, lexed, parsed, compiled, input, found, caps, start_at, last_end, calls,
              combination_stack, applied>>

\* while let Some(last_state_label) = states.pop() { ... }
CollapseIterate ==
    /\ pc = "collapsing"
    /\ closure.acc.states # <<>>
    /\ closure.iterations < MaxIterations
    /\ LET last_state_label == closure.acc.states[Len(closure.acc.states)]
           expands == last_state_label \notin closure.visited
           after == collapse_iteration(closure.machine, closure.acc, closure.visited)
       IN  closure' = [closure EXCEPT
                          !.acc = after.acc,
                          !.visited = after.visited,
                          !.iterations = @ + 1,
                          !.pops[last_state_label] = @ + 1,
                          !.expansions[last_state_label] = IF expands THEN @ + 1 ELSE @]
    /\ UNCHANGED <<pc, sim_vars>>

\* the loop has ended: (collapsed_states, accept) is returned, to
\* run_machine, which leaves `accepted` false, or to do_transition, which
\* returns accepted || accepted_via_null
CollapseReturn ==
    /\ pc = "collapsing"
    /\ closure.acc.states = <<>>
    /\ pc' = "collapsed"
    /\ closure' = [closure EXCEPT
                      !.accepted = IF closure.fed = 0 THEN FALSE ELSE @ \/ closure.acc.accept]
    /\ UNCHANGED sim_vars

\* do_transition up to its call of collapse_null_transitions: the loop over
\* curr_states in one of the orders of the HashSet, then the entry of
\* collapse_null_transitions on new_states
DoTransition ==
    /\ pc = "collapsed"
    /\ closure.fed < MaxSimSteps
    /\ closure.acc.collapsed_states # {}
    /\ \E input_char \in SimAlphabet, order \in Orders(closure.acc.collapsed_states) :
          LET looped == state_loop(closure.machine, order, 1, input_char, closure.position,
                            [new_states |-> {}, consumed_a_character |-> FALSE,
                             accepted |-> closure.accepted, matcher |-> GexMatcher(FALSE)])
              new_position == IF looped.consumed_a_character
                              THEN closure.position + 1 ELSE closure.position
          IN  \E collected \in Orders(looped.new_states) :
                 closure' = [closure EXCEPT
                                !.acc = StartClosure(collected),
                                !.visited = {},
                                !.position = new_position,
                                !.accepted = looped.accepted,
                                !.expansions = [q \in DOMAIN @ |-> 0],
                                !.pops = [q \in DOMAIN @ |-> 0],
                                !.iterations = 0,
                                !.fed = @ + 1,
                                !.active = closure.acc.collapsed_states,
                                !.order = order,
                                !.ch = input_char,
                                !.new_states = looped.new_states,
                                !.consumed_a_character = looped.consumed_a_character,
                                !.accepted_before = closure.accepted]
    /\ pc' = "collapsing"
    /\ UNCHANGED sim_vars

SimNext ==
    \/ CollapseIterate
    \/ CollapseReturn
    \/ DoTransition

SimSpec == SimInit /\ [][SimNext]_vars

\* the loop of collapse_null_transitions runs on one thread without waiting:
\* an iteration that can be taken is taken
SimLive == SimSpec /\ WF_vars(CollapseIterate) /\ WF_vars(CollapseReturn)

(***************************************************************************)
(* Reference semantics of a machine's NFA: the strings consumed by a path  *)
(* from state 0 to Accept.  The properties of the matcher are stated       *)
(* against it.                                                             *)
(***************************************************************************)

\* the label standing for Next::Accept in a set of states
AcceptLabel == 0 - 1

\* the label a transition leads to
NextLabel(next) == IF next.kind = "Target" THEN next.n ELSE AcceptLabel

\* the transitions of a state label (none for a label without a state)
TransitionsOf(m, q) ==
    IF HasState(m, q)
    THEN {m.states[q + 1].transitions[i] : i \in DOMAIN m.states[q + 1].transitions}
    ELSE {}

RECURSIVE NfaClosure(_, _)
\* the labels reachable from S over Null transitions
NfaClosure(m, S) ==
    LET more == S \cup UNION {{NextLabel(t.next) : t \in {x \in TransitionsOf(m, q) : x.rule.kind = "Null"}}
                              : q \in S}
    IN  IF more = S THEN S ELSE NfaClosure(m, more)

\* a state admits a scalar unless it is a short-circuit state one of whose
\* rules rejects the scalar
Admits(m, q, c) ==
    HasState(m, q) /\
    (short_circuit(m.states[q + 1]) =>
        \A t \in TransitionsOf(m, q) : t.rule.kind # "Null" => evaluate_rule(t.rule, c))

\* the labels reached from the closure of S by consuming the scalar c
NfaStep(m, S, c) ==
    UNION {{NextLabel(t.next) : t \in {x \in TransitionsOf(m, q) :
                                        x.rule.kind # "Null" /\ evaluate_rule(x.rule, c)}}
           : q \in {x \in NfaClosure(m, S) : Admits(m, x, c)}}

RECURSIVE NfaRun(_, _, _, _)
\* the labels reached from S by consuming w[k..]
NfaRun(m, S, w, k) ==
    IF k > Len(w) THEN NfaClosure(m, S)
    ELSE NfaRun(m, NfaStep(m, S, w[k]), w, k + 1)

\* some path from state 0 to Accept consumes exactly w
NfaAccepts(m, w) == AcceptLabel \in NfaRun(m, {0}, w, 1)

(***************************************************************************)
(* C1                                                                      *)
(***************************************************************************)

\* C1: soundness of find. Whenever find(S) returns Some(M), M.start..M.end
\* is a slice of S and that slice is accepted by the machine's NFA (some
\* path from state 0 to Accept consumes exactly it).
C1_FindSound ==
    (pc \in {"found", "captured"} /\ found.tag = "Some") =>
        /\ CanSlice(input, found.start, found.end)
        /\ NfaAccepts(compiled.machine, StrRange(input, found.start, found.end))

(***************************************************************************)
(* C2                                                                      *)
(***************************************************************************)

\* the spans [s, e) of an input, in byte offsets on scalar boundaries
Spans(s) == {sp \in StartOffsets(s) \X StartOffsets(s) : sp[1] <= sp[2]}

\* the spans whose substring the NFA accepts
AcceptedSpans(m, s) == {sp \in Spans(s) : NfaAccepts(m, StrRange(s, sp[1], sp[2]))}

\* the leftmost-longest accepted span, None when there is none
LeftmostLongest(m, s) ==
    LET accepted == AcceptedSpans(m, s) IN
    IF accepted = {} THEN None
    ELSE LET first == CHOOSE sp \in accepted :
                          \A other \in accepted :
                              \/ sp[1] < other[1]
                              \/ (sp[1] = other[1] /\ sp[2] >= other[2])
         IN  Some(first[1], first[2])

\* C2: completeness and leftmost-longest of find. find(S) is Some iff some
\* substring of S is accepted by the NFA, and the match returned has the
\* smallest start at which an accepted substring begins and the largest end
\* for that start.
C2_FindLeftmostLongest ==
    pc \in {"found", "captured"} => found = LeftmostLongest(compiled.machine, input)

(***************************************************************************)
(* C3: the regular language denoted by a pattern, read directly off the    *)
(* pattern text with the precedence quantifier > concatenation >           *)
(* alternation.                                                            *)
(***************************************************************************)

RECURSIVE CloseOf(_, _, _)
\* the index of the parenthesis closing the one opened before index i, where
\* depth parentheses are open; 0 when there is none
CloseOf(p, i, depth) ==
    IF i > Len(p) THEN 0
    ELSE IF p[i] = "\\" THEN CloseOf(p, i + 2, depth)
    ELSE IF p[i] = "(" THEN CloseOf(p, i + 1, depth + 1)
    ELSE IF p[i] = ")" THEN (IF depth = 1 THEN i ELSE CloseOf(p, i + 1, depth - 1))
    ELSE CloseOf(p, i + 1, depth)

RECURSIVE BracketOf(_, _)
\* the index of the first "]" from index i on; 0 when there is none
BracketOf(p, i) ==
    IF i > Len(p) THEN 0 ELSE IF p[i] = "]" THEN i ELSE BracketOf(p, i + 1)

\* the index of the last character of the atom starting at index i
AtomEnd(p, i) ==
    CASE p[i] = "(" -> CloseOf(p, i + 1, 1)
      [] p[i] = "[" -> BracketOf(p, i + 1)
      [] p[i] = "\\" -> i + 1
      [] OTHER -> i

RECURSIVE QuantifiersEnd(_, _)
\* the index of the last of the quantifiers that follow index i
QuantifiersEnd(p, i) ==
    IF i + 1 <= Len(p) /\ p[i + 1] \in {"*", "+", "?"} THEN QuantifiersEnd(p, i + 1) ELSE i

RECURSIVE TopBar(_, _)
\* the index of the first "|" outside groups and classes from index i on;
\* 0 when there is none
TopBar(p, i) ==
    IF i > Len(p) \/ i = 0 THEN 0
    ELSE IF p[i] = "|" THEN i
    ELSE IF AtomEnd(p, i) = 0 THEN 0
    ELSE TopBar(p, AtomEnd(p, i) + 1)

\* whether the scalar c is one of the items of a class body
InClassBody(body, c) ==
    \E i \in 1..Len(body) :
        \/ /\ i + 2 <= Len(body)
           /\ body[i + 1] = "-"
           /\ Code(body[i]) <= Code(c)
           /\ Code(c) <= Code(body[i + 2])
        \/ /\ body[i] = c
           /\ ~(i > 1 /\ i < Len(body) /\ c = "-")

\* whether the scalar c is matched by the escape \e
InEscape(e, c) ==
    CASE e = "w" -> is_alphanumeric(c)
      [] e = "W" -> ~is_alphanumeric(c)
      [] e = "d" -> is_numeric(c)
      [] e = "D" -> ~is_numeric(c)
      [] e = "s" -> is_whitespace(c)
      [] e = "S" -> ~is_whitespace(c)
      [] OTHER -> c = e

RECURSIVE InAlternation(_, _)
RECURSIVE InConcatenation(_, _)
RECURSIVE InQuantified(_, _)
RECURSIVE InAtom(_, _)

\* w is in the language of the alternation p
InAlternation(p, w) ==
    LET bar == IF p = <<>> THEN 0 ELSE TopBar(p, 1) IN
    IF bar = 0 THEN InConcatenation(p, w)
    ELSE \/ InConcatenation(SubSeq(p, 1, bar - 1), w)
         \/ InAlternation(SubSeq(p, bar + 1, Len(p)), w)

\* w is in the language of the concatenation p of quantified atoms
InConcatenation(p, w) ==
    IF p = <<>> THEN w = <<>>
    ELSE LET e == QuantifiersEnd(p, AtomEnd(p, 1)) IN
         \E k \in 0..Len(w) :
             /\ InQuantified(SubSeq(p, 1, e), SubSeq(w, 1, k))
             /\ InConcatenation(SubSeq(p, e + 1, Len(p)), SubSeq(w, k + 1, Len(w)))

\* w is in the language of the atom with its quantifiers q
InQuantified(q, w) ==
    IF AtomEnd(q, 1) = Len(q) THEN InAtom(q, w)
    ELSE LET inner == SubSeq(q, 1, Len(q) - 1) IN
         CASE q[Len(q)] = "?" -> w = <<>> \/ InQuantified(inner, w)
           [] q[Len(q)] = "*" ->
                \/ w = <<>>
                \/ \E k \in 1..Len(w) :
                       /\ InQuantified(inner, SubSeq(w, 1, k))
                       /\ InQuantified(q, SubSeq(w, k + 1, Len(w)))
           [] q[Len(q)] = "+" ->
                \/ InQuantified(inner, w)
                \/ \E k \in 1..(Len(w) - 1) :
                       /\ InQuantified(inner, SubSeq(w, 1, k))
                       /\ InQuantified(q, SubSeq(w, k + 1, Len(w)))

\* w is in the language of the atom a
InAtom(a, w) ==
    CASE a[1] = "(" -> InAlternation(SubSeq(a, 2, Len(a) - 1), w)
      [] a[1] = "[" ->
            /\ Len(w) = 1
            /\ IF a[2] = "^" THEN ~InClassBody(SubSeq(a, 3, Len(a) - 1), w[1])
               ELSE InClassBody(SubSeq(a, 2, Len(a) - 1), w[1])
      [] a[1] = "\\" -> Len(w) = 1 /\ InEscape(a[2], w[1])
      [] a[1] = "." -> Len(w) = 1
      [] OTHER -> w = a

\* the regular language denoted by the pattern p
Denotes(p, w) == InAlternation(p, w)

\* C3: round-trip language correctness. For every pattern on which compile
\* succeeds, the NFA accepts a string w iff w belongs to the regular language
\* denoted by the pattern.
C3_RoundTripLanguage ==
    pc = "ready" =>
        \A w \in InputsFor(pattern) : NfaAccepts(compiled.machine, w) <=> Denotes(pattern, w)

(***************************************************************************)
(* C4                                                                      *)
(***************************************************************************)

\* the spans passed to the callback so far
CallSpans == [i \in 1..Len(calls) |-> <<calls[i].start, calls[i].end>>]

\* the input of the iteration example
FindAllInput ==
    <<"c", "a", "b", "b", ",", "a", "b", "a", "b", "a", "b", "b", "b", "b",
      "c", "d", "a", "b", "b", "b">>

\* C4: iteration order. The matches passed to the callback of
\* try_find_iter_at have strictly increasing starts and do not overlap, after
\* a zero-width match the next search starts at least one byte beyond it, and
\* `ab+` on "cabb,abababbbbcdabbb" from offset 0 yields (1,4), (5,7), (7,9),
\* (9,14), (16,20) in that order.
C4_IterationOrder ==
    /\ \A i \in 2..Len(calls) :
           /\ calls[i].start > calls[i - 1].start
           /\ calls[i].start >= calls[i - 1].end
    /\ (pc = "iterating" /\ calls # <<>> /\ calls[Len(calls)].start = calls[Len(calls)].end)
           => last_end >= calls[Len(calls)].end + 1
    /\ (/\ pattern = <<"a", "b", "+">>
        /\ input = FindAllInput
        /\ start_at = 0
        /\ pc = "returned Ok"
        /\ \A i \in 1..Len(calls) : calls[i].ret = "Ok(true)")
           => CallSpans = << <<1, 4>>, <<5, 7>>, <<7, 9>>, <<9, 14>>, <<16, 20>> >>

\* C4 witness: an iteration in which a zero-width match was passed to the
\* callback and a later match followed it
C4_Witness ==
    \E i \in 1..(Len(calls) - 1) :
        /\ calls[i].start = calls[i].end
        /\ calls[i + 1].start > calls[i].end

(***************************************************************************)
(* C5                                                                      *)
(***************************************************************************)

\* C5: iteration never aborts. try_find_iter_at never panics, and it never
\* starts a search at an offset beyond the end of the input or inside a
\* multi-byte scalar, also when the machine accepts the empty string.
C5_IterationNeverAborts ==
    /\ pc # "panicked"
    /\ pc = "iterating" =>
           /\ last_end <= ByteLen(input)
           /\ IsCharBoundary(input, last_end)

(***************************************************************************)
(* C6                                                                      *)
(***************************************************************************)

\* a Match as the value of a capture map
Span(start, end) == [start |-> start, end |-> end]

\* C6: capture completeness. captures(S) is Some iff find(S) is Some, and
\* then entry 0 of the capture map is the match returned by find(S), also
\* when the leftmost match does not begin at offset 0.
C6_CapturesAgreeWithFind ==
    pc = "captured" =>
        /\ (caps.tag = "Some") <=> (found.tag = "Some")
        /\ caps.tag = "Some" =>
               /\ 0 \in DOMAIN caps.map
               /\ caps.map[0] = Span(found.start, found.end)

(***************************************************************************)
(* C7                                                                      *)
(***************************************************************************)

\* C7: match offsets are byte offsets. The start and the end of a match
\* returned by find lie on scalar boundaries of the input, and a pattern that
\* consumes every scalar of the input (`.*`) ends at the input's UTF-8
\* length.
C7_ByteOffsets ==
    (pc \in {"found", "captured"} /\ found.tag = "Some") =>
        /\ found.end <= ByteLen(input)
        /\ IsCharBoundary(input, found.start)
        /\ IsCharBoundary(input, found.end)
        /\ pattern = <<".", "*">> => found = Some(0, ByteLen(input))

(***************************************************************************)
(* C8                                                                      *)
(***************************************************************************)

\* a capture map from a sequence of <<group, start, end>>
RECURSIVE CaptureMap(_)
CaptureMap(entries) ==
    IF entries = <<>> THEN <<>>
    ELSE MapInsert(CaptureMap(Tail(entries)), Head(entries)[1],
                   Span(Head(entries)[2], Head(entries)[3]))

\* the pattern is one group around a body without groups or alternation
IsOneGroup(p) ==
    /\ Len(p) >= 3
    /\ p[1] = "("
    /\ p[Len(p)] = ")"
    /\ \A i \in 2..(Len(p) - 1) : p[i] \notin {"(", ")", "|", "[", "]", "\\"}

\* C8: capture spans. A successful captures maps each capturing group on the
\* matched path to the span from where its opening state was entered to where
\* its closing state was reached: a pattern that is one group maps group 1 to
\* the whole match, and `(abc)df(defg)(123)` on "abcdfdefg123" yields
\* 0->(0,12), 1->(0,3), 2->(5,9), 3->(9,12) and nothing else.
C8_CaptureSpans ==
    (pc = "captured" /\ caps.tag = "Some") =>
        /\ IsOneGroup(pattern) =>
               caps.map = CaptureMap(<< <<0, caps.map[0].start, caps.map[0].end>>,
                                        <<1, caps.map[0].start, caps.map[0].end>> >>)
        /\ (/\ pattern = <<"(", "a", "b", "c", ")", "d", "f", "(", "d", "e", "f", "g", ")",
                           "(", "1", "2", "3", ")">>
            /\ input = <<"a", "b", "c", "d", "f", "d", "e", "f", "g", "1", "2", "3">>)
               => caps.map = CaptureMap(<< <<0, 0, 12>>, <<1, 0, 3>>, <<2, 5, 9>>,
                                           <<3, 9, 12>> >>)

(***************************************************************************)
(* C9                                                                      *)
(***************************************************************************)

\* C9: group numbering. Capturing groups are numbered in the order of their
\* opening parenthesis, an enclosing group before the groups nested in it:
\* `(a(bc(de)))df(defg)` on "abcdedfdefgh" captures 1->(0,5), 2->(1,5),
\* 3->(3,5) and 4->(7,11) beside the whole match 0->(0,11).
C9_GroupNumbering ==
    (/\ pc = "captured"
     /\ pattern = <<"(", "a", "(", "b", "c", "(", "d", "e", ")", ")", ")", "d", "f",
                    "(", "d", "e", "f", "g", ")">>
     /\ input = <<"a", "b", "c", "d", "e", "d", "f", "d", "e", "f", "g", "h">>)
        => /\ caps.tag = "Some"
           /\ caps.map = CaptureMap(<< <<0, 0, 11>>, <<1, 0, 5>>, <<2, 1, 5>>,
                                       <<3, 3, 5>>, <<4, 7, 11>> >>)

(***************************************************************************)
(* C10                                                                     *)
(***************************************************************************)

\* C10: captures under alternation. When the match takes one branch of an
\* alternation the capture map holds exactly group 0 and the groups closed on
\* that branch, the right branch's groups numbered after the left branch's:
\* `(abc)df(defg)|(123)` on "123abcdfdefg" yields exactly 0->(0,3) and
\* 3->(0,3), and `(a)|(b)` on "b" exactly 0->(0,1) and 2->(0,1).
C10_CapturesUnderAlternation ==
    pc = "captured" =>
        /\ (/\ pattern = <<"(", "a", "b", "c", ")", "d", "f", "(", "d", "e", "f", "g", ")",
                           "|", "(", "1", "2", "3", ")">>
            /\ input = <<"1", "2", "3", "a", "b", "c", "d", "f", "d", "e", "f", "g">>)
               => /\ caps.tag = "Some"
                  /\ caps.map = CaptureMap(<< <<0, 0, 3>>, <<3, 0, 3>> >>)
        /\ (pattern = <<"(", "a", ")", "|", "(", "b", ")">> /\ input = <<"b">>)
               => /\ caps.tag = "Some"
                  /\ caps.map = CaptureMap(<< <<0, 0, 1>>, <<2, 0, 1>> >>)

(***************************************************************************)
(* C11                                                                     *)
(***************************************************************************)

\* the pattern and the input of the empty-group example
EmptyGroupPattern ==
    <<"(", ")", "a", "f", "(", "(", ")", ")", "d", "(", "f", "(", ")", "f", ")">>

EmptyGroupInput == <<"a", "f", "d", "f", "f", "d", "i", "u", "i">>

\* C11: empty group. A pattern containing an empty group `()` compiles, and
\* captures reports the group as a zero-width span where it is reached: `()`
\* alone captures 0->(0,0) and 1->(0,0), and `()af(())d(f()f)` on "afdffdiui"
\* captures 0->(0,5), 1->(0,0), 2->(2,2), 3->(2,2), 4->(3,5), 5->(4,4).
C11_EmptyGroup ==
    /\ (pc # "start" /\ pattern \in {<<"(", ")">>, EmptyGroupPattern})
           => compiled.status = "Ok"
    /\ (pc = "captured" /\ pattern = <<"(", ")">>)
           => /\ caps.tag = "Some"
              /\ caps.map = CaptureMap(<< <<0, 0, 0>>, <<1, 0, 0>> >>)
    /\ (pc = "captured" /\ pattern = EmptyGroupPattern /\ input = EmptyGroupInput)
           => /\ caps.tag = "Some"
              /\ caps.map = CaptureMap(<< <<0, 0, 5>>, <<1, 0, 0>>, <<2, 2, 2>>,
                                          <<3, 2, 2>>, <<4, 3, 5>>, <<5, 4, 4>> >>)

(***************************************************************************)
(* C12                                                                     *)
(***************************************************************************)

\* where the search that produced the i-th call of the callback started
SearchStart(i) == IF i = 1 THEN start_at ELSE next_last_end(calls[i - 1])

\* C12: iterator callback protocol. The callback is called once per match,
\* in order, each match being the result of find_at from where the previous
\* one left off; no call follows a call that returned Ok(false) or Err; the
\* iteration returns Err exactly after a call that returned Err, and it
\* returns Ok(()) after a call that returned Ok(false) or when find_at finds
\* no further match.
C12_CallbackProtocol ==
    /\ \A i \in 1..Len(calls) :
           /\ Some(calls[i].start, calls[i].end)
                  \in find_at(compiled.machine, input, SearchStart(i))
           /\ i < Len(calls) => calls[i].ret = "Ok(true)"
    /\ pc = "iterating" => \A i \in 1..Len(calls) : calls[i].ret = "Ok(true)"
    /\ pc = "returned Err" <=> (calls # <<>> /\ calls[Len(calls)].ret = "Err")
    /\ pc = "returned Ok" =>
           \/ calls # <<>> /\ calls[Len(calls)].ret = "Ok(false)"
           \/ /\ \A i \in 1..Len(calls) : calls[i].ret = "Ok(true)"
              /\ None \in find_at(compiled.machine, input, last_end)

\* C12 witness: an iteration that returned Ok(()) because the second call of
\* the callback returned Ok(false)
C12_Witness ==
    /\ pc = "returned Ok"
    /\ Len(calls) = 2
    /\ calls[2].ret = "Ok(false)"

(***************************************************************************)
(* C13                                                                     *)
(***************************************************************************)

\* C13: determinism of find. For a fixed machine and input find has one
\* possible result, whatever the order in which the states of the active
\* set are visited.
C13_FindDeterministic ==
    pc \in {"found", "captured"} => find(compiled.machine, input) = {found}


(***************************************************************************)
(* Claims about the front end, checked under FrontSpec.                    *)
(***************************************************************************)

\* tokenize has returned Ok(tokens)
Lexed == pc \in {"tokenized", "parsed", "syntax error", "parse panicked"}

\* a token that can end an atom, a token that can start one
EndsAtom(token) == token.kind \in {"CloseGroup", "Quantifier", "Literal"}
StartsAtom(token) == token.kind \in {"OpenGroup", "Literal"}

\* C14: Implicit concatenation.  A zero-width Cons token, placed at the end
\* offset of the token before it, stands between two consecutive tokens
\* exactly when the first is a CloseGroup, Quantifier or Literal and the
\* second an OpenGroup or a Literal; no Cons is first or last, and none
\* follows an OpenGroup, an Alternation or another Cons.
C14_ImplicitConcatenation ==
    Lexed =>
        LET ts == lexed.tokens IN
        \A i \in 1..Len(ts) :
            /\ ts[i].kind = "Cons" =>
                  /\ 1 < i /\ i < Len(ts)
                  /\ ts[i - 1].kind # "Cons" /\ EndsAtom(ts[i - 1])
                  /\ ts[i + 1].kind # "Cons" /\ StartsAtom(ts[i + 1])
                  /\ ts[i].start = ts[i - 1].end
                  /\ ts[i].end = ts[i - 1].end
            /\ (i < Len(ts) /\ ts[i].kind # "Cons" /\ ts[i + 1].kind # "Cons") =>
                  ~(EndsAtom(ts[i]) /\ StartsAtom(ts[i + 1]))

\* C14 witness: a Cons stands between a quantifier and the literal after it
C14_Witness ==
    /\ Lexed
    /\ \E i \in 2..Len(lexed.tokens) :
          /\ lexed.tokens[i].kind = "Cons"
          /\ lexed.tokens[i - 1].kind = "Quantifier"
          /\ lexed.tokens[i].start = lexed.tokens[i - 1].end

\* the tokens that stand for a piece of the pattern's text
IsNotCons(token) == token.kind # "Cons"
TextTokens == SelectSeq(lexed.tokens, IsNotCons)

\* C15: Token spans are exact byte spans.  The spans of the tokens other
\* than Cons partition the bytes of the pattern in order: the first starts
\* at 0, each starts where the one before it ended, the last ends at the
\* byte length of the pattern; and the span of a Literal(Character) token
\* covers all the UTF-8 bytes of its scalar.
C15_TokenSpansExact ==
    (Lexed /\ pattern # <<>>) =>
        LET ts == TextTokens IN
        /\ ts # <<>>
        /\ ts[1].start = 0
        /\ \A i \in 1..(Len(ts) - 1) : ts[i + 1].start = ts[i].end
        /\ ts[Len(ts)].end = ByteLen(pattern)
        /\ \A i \in 1..Len(ts) :
              (ts[i].kind = "Literal" /\ ts[i].sub = "Character") =>
                  /\ IsCharBoundary(pattern, ts[i].start)
                  /\ ts[i].end = ts[i].start
                                   + Utf8Len(pattern[IndexAtByte(pattern, ts[i].start)])

\* tokenize has returned, Ok or Err
TokenizeReturned == pc # "start"

\* the (1-based) indices of the scalars of the pattern that start a token:
\* everything before them is tokenized on its own
TokenStarts == {k \in 1..Len(pattern) : tokenize(SubSeq(pattern, 1, k - 1)).ok}

\* for a "[" at index k: whether "^" follows it, the index of the first
\* scalar of the class, and the "]" that can close it
IsNegated(k) == k < Len(pattern) /\ pattern[k + 1] = "^"
FirstInner(k) == IF IsNegated(k) THEN k + 2 ELSE k + 1
Closers(k) ==
    {j \in FirstInner(k)..Len(pattern) :
        pattern[j] = "]" /\ (j = FirstInner(k) \/ pattern[j - 1] # "\\")}
FirstCloser(k) == CHOOSE j \in Closers(k) : \A other \in Closers(k) : j <= other

\* the tokens of a class (Manual, positive) with the span start..end
ClassTokensAt(start_position, end_position, positive) ==
    {i \in 1..Len(lexed.tokens) :
        /\ lexed.tokens[i].kind = "Literal"
        /\ lexed.tokens[i].sub = "CharacterClass"
        /\ lexed.tokens[i].class = "Manual"
        /\ lexed.tokens[i].positive = positive
        /\ lexed.tokens[i].start = start_position
        /\ lexed.tokens[i].end = end_position}

\* C16 at the "[" of index k, for the prefixes in the set given
BracketExpressionAt(k) ==
    LET p == ByteOffsetOf(pattern, k) IN
    IF Closers(k) = {}
    THEN ~lexed.ok /\ lexed.err = "UnterminatedCharacterSet" /\ lexed.pos = p
    ELSE IF FirstCloser(k) = FirstInner(k)
    THEN ~lexed.ok /\ lexed.err = "EmptyCharacterSet" /\ lexed.pos = p
    ELSE LET end_position == ByteOffsetOf(pattern, FirstCloser(k) + 1) IN
         IF lexed.ok
         THEN /\ Cardinality(ClassTokensAt(p, end_position, ~IsNegated(k))) = 1
              /\ \A i \in 1..Len(lexed.tokens) :
                    (lexed.tokens[i].kind # "Cons" /\ lexed.tokens[i].start = p) =>
                        i \in ClassTokensAt(p, end_position, ~IsNegated(k))
         ELSE lexed.pos >= end_position

\* C16: Bracket expressions.  For a "[" at byte offset p that starts a
\* token, tokenize returns Err(EmptyCharacterSet(p)) when the first "]" not
\* immediately preceded by a backslash comes directly after "[" or "[^",
\* Err(UnterminatedCharacterSet(p)) when no such "]" follows, and otherwise
\* emits a single CharacterClass(Manual, positive) token spanning "["
\* through that "]", with positive = false iff the first inner scalar is "^".
C16_BracketExpressions ==
    TokenizeReturned =>
        \A k \in TokenStarts : pattern[k] = "[" => BracketExpressionAt(k)

\* the pattern ends with a backslash that starts a token
EndsWithOpenEscape ==
    /\ pattern # <<>>
    /\ pattern[Len(pattern)] = "\\"
    /\ Len(pattern) \in TokenStarts

\* C17: Unterminated escape.  tokenize returns Err(UnterminatedEscape(p))
\* exactly when a backslash that starts a token at byte offset p is the last
\* scalar of the pattern; a backslash followed by any scalar never produces
\* this error, and on any tokenizer error no token sequence is returned.
C17_UnterminatedEscape ==
    TokenizeReturned =>
        /\ EndsWithOpenEscape =>
              /\ ~lexed.ok
              /\ lexed.err = "UnterminatedEscape"
              /\ lexed.pos = ByteOffsetOf(pattern, Len(pattern))
        /\ (~lexed.ok /\ lexed.err = "UnterminatedEscape") => EndsWithOpenEscape
        /\ ~lexed.ok => lexed.tokens = <<>>

\* from_tokens has returned an Ast
Parsed == pc = "parsed"

\* the node behind an AstRef (0-based), and the refs of the Ast
NodeAt(node_ref) == parsed.ast[node_ref + 1]
NodeRefs == 0..(Len(parsed.ast) - 1)

\* the shape of an Ast: kind and children of every node
Shape == [i \in 1..Len(parsed.ast) |->
             <<parsed.ast[i].kind, parsed.ast[i].left, parsed.ast[i].right>>]

\* C18: Operator precedence.  In every Ast the parser returns, the operand
\* of a Quantifier node is the atom, group or quantified atom that ends
\* where the quantifier starts, never a Cons or Alternation node, and no
\* Cons node has an Alternation node as a direct child; `ab*|c` parses as
\* Alternation(Cons(a, Quantifier(b)), c).
C18_OperatorPrecedence ==
    Parsed =>
        /\ \A r \in NodeRefs :
              /\ NodeAt(r).kind = "Quantifier" =>
                    /\ NodeAt(r).left \in NodeRefs
                    /\ NodeAt(NodeAt(r).left).kind \in {"Literal", "Group", "Quantifier"}
                    /\ NodeAt(NodeAt(r).left).token.end = NodeAt(r).token.start
              /\ NodeAt(r).kind = "Cons" =>
                    /\ NodeAt(NodeAt(r).left).kind # "Alternation"
                    /\ NodeAt(NodeAt(r).right).kind # "Alternation"
        /\ pattern = <<"a", "b", "*", "|", "c">> =>
              Shape = << <<"Literal", 0 - 1, 0 - 1>>, <<"Literal", 0 - 1, 0 - 1>>,
                         <<"Quantifier", 1, 0 - 1>>, <<"Cons", 0, 2>>,
                         <<"Literal", 0 - 1, 0 - 1>>, <<"Alternation", 3, 4>> >>

\* C18 witness: `ab*|c` has been parsed, and its root is an Alternation
\* over a Cons that ends with a Quantifier
C18_Witness ==
    /\ Parsed
    /\ pattern = <<"a", "b", "*", "|", "c">>
    /\ NodeAt(5).kind = "Alternation"
    /\ NodeAt(NodeAt(5).left).kind = "Cons"
    /\ NodeAt(NodeAt(NodeAt(5).left).right).kind = "Quantifier"

Min2(x, y) == IF x <= y THEN x ELSE y
Max2(x, y) == IF x >= y THEN x ELSE y

IsBinary(node) == node.kind \in {"Cons", "Alternation"}

RECURSIVE SourceStart(_)
\* the offset at which the first token under a node starts
SourceStart(r) ==
    IF IsBinary(NodeAt(r))
    THEN Min2(SourceStart(NodeAt(r).left), SourceStart(NodeAt(r).right))
    ELSE IF NodeAt(r).kind = "Literal" THEN NodeAt(r).token.start
    ELSE Min2(SourceStart(NodeAt(r).left), NodeAt(r).token.start)

RECURSIVE SourceEnd(_)
\* the offset at which the last token under a node ends
SourceEnd(r) ==
    IF IsBinary(NodeAt(r))
    THEN Max2(SourceEnd(NodeAt(r).left), SourceEnd(NodeAt(r).right))
    ELSE IF NodeAt(r).kind = "Literal" THEN NodeAt(r).token.end
    ELSE Max2(SourceEnd(NodeAt(r).left), NodeAt(r).token.end)

\* C19: Left associativity.  A chain of one binary operator parses
\* left-nested: the right child of a Cons is never a Cons, the right child
\* of an Alternation never an Alternation (`a|b|c` is
\* Alternation(Alternation(a, b), c), `abcd` is Cons(Cons(Cons(a, b), c), d)),
\* and in every binary node the left child is the operand that appears
\* first in the source.
C19_LeftAssociativity ==
    Parsed =>
        /\ \A r \in NodeRefs :
              IsBinary(NodeAt(r)) =>
                  /\ NodeAt(NodeAt(r).right).kind # NodeAt(r).kind
                  /\ SourceEnd(NodeAt(r).left) <= SourceStart(NodeAt(r).right)
        /\ pattern = <<"a", "|", "b", "|", "c">> =>
              Shape = << <<"Literal", 0 - 1, 0 - 1>>, <<"Literal", 0 - 1, 0 - 1>>,
                         <<"Alternation", 0, 1>>, <<"Literal", 0 - 1, 0 - 1>>,
                         <<"Alternation", 2, 3>> >>
        /\ pattern = <<"a", "b", "c", "d">> =>
              Shape = << <<"Literal", 0 - 1, 0 - 1>>, <<"Literal", 0 - 1, 0 - 1>>,
                         <<"Cons", 0, 1>>, <<"Literal", 0 - 1, 0 - 1>>,
                         <<"Cons", 2, 3>>, <<"Literal", 0 - 1, 0 - 1>>,
                         <<"Cons", 4, 5>> >>

\* C19 witness: a chain of three alternatives has been parsed, and the
\* left child of its root is the Alternation of the first two
C19_Witness ==
    /\ Parsed
    /\ pattern = <<"a", "|", "b", "|", "c">>
    /\ NodeAt(4).kind = "Alternation"
    /\ NodeAt(NodeAt(4).left).kind = "Alternation"
    /\ SourceEnd(NodeAt(4).left) <= SourceStart(NodeAt(4).right)

\* the child references of a node, and the nodes that use a node as operand
ChildRefs(r) ==
    IF IsBinary(NodeAt(r)) THEN {NodeAt(r).left, NodeAt(r).right}
    ELSE IF NodeAt(r).kind = "Literal" THEN {}
    ELSE {NodeAt(r).left}
Parents(r) == {q \in NodeRefs : r \in ChildRefs(q)}

RECURSIVE Below(_, _)
\* the nodes reached from r in at most depth steps down the child references
Below(r, depth) ==
    IF depth = 0 THEN {r}
    ELSE {r} \cup UNION {Below(c, depth - 1) : c \in ChildRefs(r) \cap NodeRefs}

\* the nodes of the sub-expression under r
SubExpression(r) == Below(r, Len(parsed.ast))

\* C20: AST post-order invariant.  In every Ast the parser returns, each
\* child reference of the node at index i is an index below i, the root is
\* the last node (every other node is the operand of exactly one later
\* node), and a Group node comes after all the nodes of the sub-expression
\* it wraps and before every node of an operator that uses it as an operand.
C20_AstPostOrder ==
    Parsed =>
        /\ \A r \in NodeRefs : \A c \in ChildRefs(r) : 0 <= c /\ c < r
        /\ \A r \in NodeRefs :
              IF r = Len(parsed.ast) - 1
              THEN Parents(r) = {} /\ parsed.out_stack = <<r>>
              ELSE Cardinality(Parents(r)) = 1
        /\ \A r \in NodeRefs :
              NodeAt(r).kind = "Group" =>
                  /\ \A d \in SubExpression(NodeAt(r).left) : d < r
                  /\ \A q \in NodeRefs : r \in SubExpression(q) /\ q # r => r < q

\* C20 witness: an Ast holds a Group that wraps a binary node and is itself
\* the operand of an outside operator
C20_Witness ==
    /\ Parsed
    /\ \E r \in NodeRefs :
          /\ NodeAt(r).kind = "Group"
          /\ IsBinary(NodeAt(NodeAt(r).left))
          /\ \E q \in Parents(r) : IsBinary(NodeAt(q)) /\ r < q

\* from_tokens has been called and has failed: an Err returned or an abort
ParseFailed == pc \in {"syntax error", "parse panicked"}

\* patterns with one defect each, and the byte offset of the offending token
DefectOffset ==
    [p \in { <<"*">>, <<"a", ")">>, <<"(", "a">>, <<"|", "a">>, <<"a", "|">>, <<"a", "(", "*", ")">> } |->
        CASE p = <<"*">> -> 0
          [] p = <<"a", ")">> -> 1
          [] p = <<"(", "a">> -> 0
          [] p = <<"|", "a">> -> 0
          [] p = <<"a", "|">> -> 1
          [] p = <<"a", "(", "*", ")">> -> 2]

\* C21: Parser errors are values with positions.  For a quantifier without
\* operand, a ")" without "(", a "(" that is never closed, or a binary
\* operator lacking an operand, the parser returns a SyntaxError to its
\* caller, carrying the byte offset of the offending token; it never aborts.
C21_ParserErrorsAreValues ==
    /\ ParseFailed =>
          /\ ~parsed.aborted
          /\ \E i \in 1..Len(lexed.tokens) :
                /\ lexed.tokens[i].kind # "Literal"
                /\ lexed.tokens[i].start = parsed.fail_pos
    /\ (pc \in {"parsed", "syntax error", "parse panicked"} /\ pattern \in DOMAIN DefectOffset) =>
          /\ pc = "syntax error"
          /\ parsed.fail_pos = DefectOffset[pattern]

(***************************************************************************)
(* Claims about the compiler and the combinators.                          *)
(***************************************************************************)

\* compile has returned or aborted
CompileDone == pc # "start"

\* compile has just returned or aborted: its result is in `compiled`
JustCompiled == pc \in {"ready", "rejected"}

\* the statuses that are a CompilerError handed to the caller
CompilerErrors == {"LexicalError", "SyntaxError", "MissingOperand", "Catastrophic"}

\* the pattern holds, inside a bracket, a range x-y with y below x
HasReversedRange(p) ==
    \E open \in 1..Len(p) : \E i \in (open + 1)..(Len(p) - 3) :
        /\ p[open] = "["
        /\ \A j \in open..(i + 2) : p[j] # "]"
        /\ p[i + 3] = "]" \/ \E close \in (i + 3)..Len(p) : p[close] = "]"
        /\ p[i] \notin {"^", "\\", "-"}
        /\ p[i + 1] = "-"
        /\ Code(p[i + 2]) < Code(p[i])

\* C22: Range validation.  For every pattern with a bracket range whose
\* upper endpoint is below its lower endpoint, such as `[z-a]`, compile
\* returns a CompilerError to its caller and no machine; it does not abort.
C22_RangeValidation ==
    (CompileDone /\ HasReversedRange(pattern)) =>
        /\ compiled.status \in CompilerErrors
        /\ compiled.machine = NoMachine

\* the lowering loop of compile run on the Ast of a pattern that tokenizes
\* and parses
LoweringOf(p) == lower_from(<<>>, from_tokens(tokenize(p).tokens).ast, 1, p)
ReachesLowering(p) == tokenize(p).ok /\ from_tokens(tokenize(p).tokens).fail = "None"

\* C23: Empty pattern.  compile("") returns Err(Catastrophic("No NFA
\* created")); compile returns that error exactly when lowering ends with an
\* empty machine stack, and otherwise returns the machine on top of the stack.
C23_EmptyPattern ==
    JustCompiled =>
        LET reaches == ReachesLowering(pattern)
            lowered == LoweringOf(pattern)
        IN  /\ pattern = <<>> =>
                  compiled.status = "Catastrophic" /\ compiled.info = "No NFA created"
            /\ compiled.status = "Catastrophic" <=>
                  (reaches /\ lowered.status = "Ok" /\ lowered.stack = <<>>)
            /\ (reaches /\ lowered.status = "Ok" /\ lowered.stack # <<>>) =>
                  /\ compiled.status = "Ok"
                  /\ compiled.machine = lowered.stack[Len(lowered.stack)]

\* C23 witness: the empty pattern has been rejected with Catastrophic
C23_Witness ==
    /\ pc = "rejected"
    /\ pattern = <<>>
    /\ compiled.status = "Catastrophic"
    /\ compiled.machine = NoMachine

\* the pattern is `\X` for a scalar X that names no class
IsEscapePattern(p) ==
    /\ Len(p) = 2
    /\ p[1] = "\\"
    /\ p[2] \notin {"s", "S", "w", "W", "d", "D"}

\* C24: Escaped literals.  For every scalar X other than s, S, w, W, d, D,
\* the metacharacters and the backslash included, the pattern `\X`
\* tokenizes to one EscapedCharacter token spanning both scalars and
\* compiles to a machine that accepts exactly the one-scalar string X.
C24_EscapedLiterals ==
    (JustCompiled /\ IsEscapePattern(pattern)) =>
        LET lex == tokenize(pattern) IN
        /\ lex.ok
        /\ Len(lex.tokens) = 1
        /\ lex.tokens[1].kind = "Literal"
        /\ lex.tokens[1].sub = "EscapedCharacter"
        /\ lex.tokens[1].start = 0
        /\ lex.tokens[1].end = ByteLen(pattern)
        /\ compiled.status = "Ok"
        /\ \A w \in Strings({pattern[2]} \cup InputAlphabet, 2) :
              NfaAccepts(compiled.machine, w) <=> w = <<pattern[2]>>

\* C24 witness: `\(` and `\` followed by a two-byte scalar have been
\* compiled, and the machine accepts the escaped scalar
C24_Witness ==
    /\ pc = "ready"
    /\ pattern \in {<<"\\", "(">>, <<"\\", "U+E9">>}
    /\ NfaAccepts(compiled.machine, <<pattern[2]>>)
    /\ ~NfaAccepts(compiled.machine, <<"\\">>)

(***************************************************************************)
(* Claims about the combinators, checked under CombSpec.                   *)
(***************************************************************************)

\* the machines built so far, and the result of the last application
BuiltMachines == {combination_stack[i] : i \in 1..Len(combination_stack)}
Result == combination_stack[Len(combination_stack)]
Combined == applied.op \in {"zero_or_more", "one_or_more", "zero_or_one", "group", "cons", "or"}

\* the transitions of the state of id q that lead to Accept
AcceptingTransitions(m, q) ==
    {i \in 1..Len(m.states[q + 1].transitions) : m.states[q + 1].transitions[i].next.kind = "Accept"}

AcceptInvariant(m) ==
    /\ size(m) >= 1
    /\ m.states[size(m)].transitions = <<Transition(Null, Accept)>>
    /\ \A q \in 0..(size(m) - 2) : AcceptingTransitions(m, q) = {}

\* C25: Accept-state invariant.  Every machine produced by the leaf
\* constructors and any sequence of cons, or, group, zero_or_more,
\* one_or_more and zero_or_one has its start in state 0, the transition list
\* of its last state is exactly [(Null, Accept)], and no other state has a
\* transition to Accept.
C25_AcceptStateInvariant ==
    \A m \in BuiltMachines \cup LeafMachines : AcceptInvariant(m)

\* C25 witness: an alternation over a quantified machine has been built,
\* and it ends in the one accept state
C25_Witness ==
    /\ applied.op = "or"
    /\ applied.count >= 2
    /\ size(Result) = size(applied.left) + size(applied.right)
    /\ size(applied.left) > 3
    /\ AcceptInvariant(Result)

\* the state ids that the transitions of a machine aim at
TargetsOf(m) ==
    UNION {{m.states[q].transitions[i].next.n :
               i \in {k \in 1..Len(m.states[q].transitions) :
                         m.states[q].transitions[k].next.kind = "Target"}}
           : q \in 1..Len(m.states)}

\* C26: In-range transitions.  In every machine produced by the leaf
\* constructors and any sequence of the combinators, every transition
\* destination Target(n) has n below the number of states of that machine.
C26_InRangeTransitions ==
    \A m \in BuiltMachines \cup LeafMachines : \A n \in TargetsOf(m) : 0 <= n /\ n < size(m)

\* C26 witness: a zero_or_more machine has been built, and the skip
\* transition of its state 0 aims at its last state
C26_Witness ==
    /\ applied.op = "zero_or_more"
    /\ size(Result) = size(applied.left) + 1
    /\ \E i \in 1..Len(Result.states[1].transitions) :
          Result.states[1].transitions[i] = Transition(Null, Target(size(Result) - 1))

\* the flag words a machine carries, on any state
FlagsOf(m) == UNION {{m.features[q][i] : i \in 1..Len(m.features[q])} : q \in DOMAIN m.features}

\* the (state, index) places of the group-open flags of a machine
OpenFlagPlaces(m) ==
    {pl \in UNION {{<<q, i>> : i \in 1..Len(m.features[q])} : q \in DOMAIN m.features} :
        m.features[pl[1]][pl[2]].lo = 0}

Merged == applied.op \in {"cons", "or"}

\* C27: Distinct group ids after merging.  After cons(A, B) or or(A, B),
\* every group flag that B carried, open or close, is in the result with the
\* group number n + A.max_group_index, A's flags are unchanged,
\* max_group_index is the sum of the two, and no two capturing groups of the
\* result share a number.
C27_DistinctGroupIds ==
    Merged =>
        /\ \A f \in FlagsOf(applied.right) :
              FlagWord(f.hi + applied.left.max_group_index, f.lo) \in FlagsOf(Result)
        /\ \A q \in DOMAIN applied.left.features :
              /\ q \in DOMAIN Result.features
              /\ \A i \in 1..Len(applied.left.features[q]) :
                    /\ i <= Len(Result.features[q])
                    /\ Result.features[q][i] = applied.left.features[q][i]
        /\ Result.max_group_index
              = applied.left.max_group_index + applied.right.max_group_index
        /\ \A x, y \in OpenFlagPlaces(Result) :
              Result.features[x[1]][x[2]].hi = Result.features[y[1]][y[2]].hi => x = y

\* The words the languages of the combined machines are compared on.
MaxWordLen == 3

CombWords == Strings({"a", "b"}, MaxWordLen)

\* C28: the machine or(A, B) builds accepts a word exactly when A accepts it
\* or B accepts it, also when A was built by zero_or_more or one_or_more; a
\* word of A followed by a word of B is accepted only if it is in that union.
C28_AlternationUnion ==
    applied.op = "or" =>
        \A w \in CombWords :
            NfaAccepts(Result, w)
                <=> (NfaAccepts(applied.left, w) \/ NfaAccepts(applied.right, w))

\* The words of CombWords the machine m accepts.
LanguageOf(m) == {w \in CombWords : NfaAccepts(m, w)}

\* w is a concatenation of zero or more words of L (the empty word taken as
\* the concatenation of none).
RECURSIVE InStar(_, _)
InStar(L, w) ==
    \/ w = <<>>
    \/ \E i \in 1..Len(w) : SubSeq(w, 1, i) \in L /\ InStar(L, SubSeq(w, i + 1, Len(w)))

\* w is a concatenation of one or more words of L.
InPlus(L, w) ==
    \E i \in 0..Len(w) : SubSeq(w, 1, i) \in L /\ InStar(L, SubSeq(w, i + 1, Len(w)))

Quantified == applied.op \in {"zero_or_more", "one_or_more", "zero_or_one"}

\* C29: zero_or_more(A) accepts the concatenations of k >= 0 words of A,
\* one_or_more(A) those of k >= 1 words (the empty word only if A accepts
\* it), zero_or_one(A) the words of A and the empty word; each of the three
\* adds exactly one state to A.
C29_QuantifierLanguages ==
    Quantified =>
        LET L == LanguageOf(applied.left) IN
        /\ size(Result) = size(applied.left) + 1
        /\ \A w \in CombWords :
              NfaAccepts(Result, w)
                  <=> CASE applied.op = "zero_or_more" -> InStar(L, w)
                        [] applied.op = "one_or_more" -> InPlus(L, w)
                        [] OTHER -> (w \in L \/ w = <<>>)

\* The flags the machine m carries on state q.
FlagsAt(m, q) ==
    IF q \in DOMAIN m.features
    THEN {m.features[q][i] : i \in 1..Len(m.features[q])}
    ELSE {}

\* C30: after or(A, B) every flag B carried on a state s, state 0 included,
\* is on the state s + |A| of the result, the state B's state s became, so
\* that the group-open flags of A and of B are on different states.
C30_FlagRelocationUnderOr ==
    applied.op = "or" =>
        \A s \in DOMAIN applied.right.features :
            \A f \in FlagsAt(applied.right, s) :
                \E g \in FlagsAt(Result, s + size(applied.left)) : g.lo = f.lo

\* ---------------------------------------------------------------------
\* Claims about the flag words and the simulation
\* ---------------------------------------------------------------------

\* the last pair group_numbers decodes on state q of the machine m
LastDecoded(m, q) ==
    LET pairs == group_numbers(m.features, q) IN
    IF pairs = <<>> THEN <<>> ELSE pairs[Len(pairs)]

\* C31: the open flag word and the close flag word that group() stores for
\* the group number N are decoded by GexFeatures::group_numbers as (N, open)
\* and (N, close): the builder and the matcher agree on the bits that hold
\* the group number and the close bit.
C31_FlagWordRoundTrip ==
    applied.op = "group" =>
        LET N == Result.max_group_index IN
        /\ LastDecoded(Result, 0) = <<N, 0>>
        /\ LastDecoded(Result, size(Result) - 1) = <<N, 1>>

\* the outcomes [found, matcher] of the run that captures makes
CaptureRuns == run_machine(compiled.machine, input, GexMatcher(TRUE))

\* the pattern has groups and neither a choice nor a repetition, so that the
\* accepting path passes the opening and the closing state of every group
IsGroupedSequence(p) ==
    /\ \E i \in 1..Len(p) : p[i] = "("
    /\ \A i \in 1..Len(p) : p[i] \notin {"|", "*", "+", "?", "[", "]", "\\"}

\* the number of groups of the pattern
GroupCount(p) == Cardinality({i \in 1..Len(p) : p[i] = "("})

\* C32: capture tracking never aborts: no close flag is processed before a
\* candidate of its group was recorded, and along an accepting path the
\* opens and closes of each group are balanced and ordered by position, so
\* that after a successful run over a pattern without choice every group has
\* a candidate that was opened and then closed at a position not before its
\* start.
C32_CaptureTrackingBalanced ==
    pc = "captured" =>
        \A r \in CaptureRuns :
            /\ r.found.tag # "Panic"
            /\ (r.found.tag = "Some" /\ IsGroupedSequence(pattern)) =>
                   /\ Cardinality(DOMAIN r.matcher.captures) = GroupCount(pattern)
                   /\ \A n \in DOMAIN r.matcher.captures :
                         /\ r.matcher.captures[n].end # NoEnd
                         /\ r.matcher.captures[n].start <= r.matcher.captures[n].end

\* ---------------------------------------------------------------------
\* Claims about collapse_null_transitions and do_transition, checked under
\* SimSpec and SimLive
\* ---------------------------------------------------------------------

\* no state had its Null transitions expanded twice in the running call,
\* and the loop stayed below the bound on its iterations
ExpandedAtMostOnce ==
    /\ \A q \in DOMAIN closure.expansions : closure.expansions[q] <= 1
    /\ closure.iterations < MaxIterations

\* the states the Null transitions of the states of S lead to
NullTargets(m, S) ==
    UNION {{m.states[p + 1].transitions[i].next.n :
               i \in {j \in 1..Len(m.states[p + 1].transitions) :
                         /\ m.states[p + 1].transitions[j].rule.kind = "Null"
                         /\ m.states[p + 1].transitions[j].next.kind = "Target"}} :
           p \in S}

RECURSIVE NullReach(_, _, _)
\* the states reached from S by one to k Null transitions
NullReach(m, S, k) ==
    IF k = 0 THEN {}
    ELSE NullTargets(m, S) \cup NullReach(m, NullTargets(m, S), k - 1)

\* the Null transitions of the machine lead from q back to q
OnNullCycle(m, q) == q \in NullReach(m, {q}, size(m))

\* C33: collapse_null_transitions terminates for every machine and every
\* starting set, also when the Null transitions form a cycle, and it expands
\* the Null transitions of each state at most once per call.
C33_ClosureTerminates ==
    /\ []ExpandedAtMostOnce
    /\ (pc = "collapsing") ~> (pc = "collapsed")

\* C33 witness: a call has returned on a machine with a cycle of Null
\* transitions, having reached a state of the cycle a second time
C33_Witness ==
    /\ pc = "collapsed"
    /\ \E q \in DOMAIN closure.pops :
          /\ OnNullCycle(closure.machine, q)
          /\ closure.pops[q] >= 2
          /\ closure.expansions[q] = 1

\* the rules of the transitions of state q of the machine m
RulesOf(m, q) ==
    {m.states[q + 1].transitions[i].rule.kind : i \in 1..Len(m.states[q + 1].transitions)}

\* C34: the set collapse_null_transitions returns holds only states with a
\* consuming (non-Null) transition; no state with a Null transition is in
\* it, also when an epsilon path reached that state a second time.
C34_OnlyConsumingStatesStayActive ==
    pc = "collapsed" =>
        \A q \in closure.acc.collapsed_states :
            /\ RulesOf(closure.machine, q) \ {"Null"} # {}
            /\ "Null" \notin RulesOf(closure.machine, q)

\* do_transition has just run its loop over the active states
JustStepped == pc = "collapsing" /\ closure.fed >= 1 /\ closure.iterations = 0

\* the short-circuit states of S one of whose rules fails on the scalar c
Rejecting(m, S, c) ==
    {q \in S :
        /\ HasState(m, q)
        /\ short_circuit(m.states[q + 1])
        /\ \E i \in 1..Len(m.states[q + 1].transitions) :
              ~evaluate_rule(m.states[q + 1].transitions[i].rule, c)}

\* what the loop of do_transition yields on the active states S
Contribution(m, S, c, position, accepted) ==
    {[new_states |-> looped.new_states,
      accepted |-> looped.accepted,
      consumed_a_character |-> looped.consumed_a_character] :
        looped \in {state_loop(m, order, 1, c, position,
                        [new_states |-> {}, consumed_a_character |-> FALSE,
                         accepted |-> accepted, matcher |-> GexMatcher(FALSE)]) :
                    order \in Orders(S)}}

\* C35: in one simulation step a short-circuit state one of whose rules
\* fails on the scalar contributes none of its targets and changes nothing
\* of what the other active states contribute: the new states, the
\* acceptance and whether the scalar counts as consumed are those of the
\* step without the rejecting states.
C35_ShortCircuitIsolation ==
    JustStepped =>
        LET rejecting == Rejecting(closure.machine, closure.active, closure.ch) IN
        [new_states |-> closure.new_states,
         accepted |-> closure.accepted,
         consumed_a_character |-> closure.consumed_a_character]
            \in Contribution(closure.machine, closure.active \ rejecting, closure.ch,
                             closure.position, closure.accepted_before)

\* ---------------------------------------------------------------------
\* Claims about bracket classes and find_at, checked under Spec
\* ---------------------------------------------------------------------

\* the pattern is one bracket class, with at most one quantifier after it
IsClassPattern(p) ==
    /\ Len(p) >= 3
    /\ p[1] = "["
    /\ \E k \in {Len(p) - 1, Len(p)} :
          /\ p[k] = "]"
          /\ \A i \in 2..(k - 1) : p[i] \notin {"[", "]", "\\"}
          /\ k = Len(p) - 1 => p[Len(p)] \in {"*", "+", "?"}

ClassIsNegative(p) == p[2] = "^"

ClassCloser(p) == IF p[Len(p)] = "]" THEN Len(p) ELSE Len(p) - 1

\* the contents of the class, without the brackets and the `^`
ClassContents(p) == SubSeq(p, IF ClassIsNegative(p) THEN 3 ELSE 2, ClassCloser(p) - 1)

\* the contents list atoms and ranges only: no `-` at either end
HasNoEdgeHyphen(p) ==
    LET body == ClassContents(p) IN
    body # <<>> /\ body[1] # "-" /\ body[Len(body)] # "-"

\* the scalars the classes are tried on
ClassProbes == {"a", "b", "c", "d", "x", "z", "A", "-", "1"}

\* what the class of the pattern p denotes
InClass(p, c) ==
    IF ClassIsNegative(p) THEN ~InClassBody(ClassContents(p), c)
    ELSE InClassBody(ClassContents(p), c)

\* find matches the whole of the input w, on every run
FullMatch(m, w) == find(m, w) = {Some(0, ByteLen(w))}

HasEdgeHyphen(p) ==
    LET body == ClassContents(p) IN
    body # <<>> /\ (body[1] = "-" \/ body[Len(body)] = "-")

\* C37: a `-` that is the first or the last scalar of the contents of a
\* class is a literal: every positive class whose contents begin or end with
\* `-`, the class `[-]` included, matches the scalar '-'; a `-` between two
\* endpoints lo <= hi denotes the closed range from lo to hi.
C37_LiteralHyphen ==
    (JustCompiled /\ IsClassPattern(pattern) /\ ~ClassIsNegative(pattern)
        /\ pattern[Len(pattern)] = "]") =>
        /\ HasEdgeHyphen(pattern) =>
              /\ compiled.status = "Ok"
              /\ FullMatch(compiled.machine, <<"-">>)
        /\ pattern = <<"[", "a", "-", "c", "]">> =>
              \A c \in ClassProbes :
                  FullMatch(compiled.machine, <<c>>) <=> c \in {"a", "b", "c"}

\* the first find_at of try_find_iter_at, the one at the offset `start_at`,
\* has returned: its match went to the callback, or it found nothing
FirstSearchDone ==
    \/ pc \in {"iterating", "returned Ok", "returned Err"} /\ Len(calls) = 1
    \/ pc = "returned Ok" /\ calls = <<>>

\* what that find_at returned
FirstSearchResult ==
    IF calls = <<>> THEN None ELSE Some(calls[1].start, calls[1].end)

\* the result r of a search in a suffix, seen from the whole input
MovedBy(r, at) == IF r.tag = "Some" THEN Some(r.start + at, r.end + at) ELSE r

\* C38: for an offset at on a scalar boundary, at most the length of S,
\* find_at(S, at) is find(S[at..]) with start and end increased by at; the
\* start is not before at and both offsets are offsets into the whole of S.
C38_FindAtOffsetRelation ==
    FirstSearchDone =>
        /\ FirstSearchResult
              \in {MovedBy(r, start_at) : r \in find(compiled.machine, StrFrom(input, start_at))}
        /\ FirstSearchResult.tag = "Some" =>
              /\ start_at <= FirstSearchResult.start
              /\ FirstSearchResult.start <= FirstSearchResult.end
              /\ FirstSearchResult.end <= ByteLen(input)
        /\ \A r \in find_at(compiled.machine, input, start_at) : r.tag # "Panic"

\* C38 witness: a search from an offset inside the input slid forward and
\* returned a match that is not empty
C38_Witness ==
    /\ FirstSearchDone
    /\ calls # <<>>
    /\ start_at >= 1
    /\ calls[1].start > start_at
    /\ calls[1].end > calls[1].start

=============================================================================
